---- MODULE Spec2Model ----
(***************************************************************************)
(* Bubble notification subsystem of bird-pet: the priority MessageQueue    *)
(* (core/message-queue) and the BubbleManager (core/bubble-manager) that   *)
(* drives the bubble WebviewWindow.                                        *)
(*                                                                         *)
(* Message ids: the string `bubble-${n}` is modelled by the integer n,     *)
(* the empty string '' by NoId, and an id that was never minted (such as   *)
(* "bubble-1-stale") by StaleId.                                            *)
(***************************************************************************)
EXTENDS Integers, Sequences, FiniteSets, TLC

\* ---- bounds of the model -------------------------------------------------
MaxSay == 2
MaxFaults == 1
MaxDismissed == 2
MaxDispose == 1
MaxTeardown == 2
MaxBusy == 3
MaxShows == 3
MaxChars == 1
MaxHides == 1
MaxPushQ == 7
MaxDrain == 2
MaxStart == 2
MaxStop == 2
MaxPolls == 3
MaxShutdown == 3
MaxLen == 4
MaxDur == 6

\* ---- program constants ---------------------------------------------------
MAX_QUEUE_SIZE == 5
DEFAULT_DURATION == 3000
READY_TIMEOUT == 10000
CHAR_INTERVAL == 40
FADEOUT_DELAY == 350

Undefined == "undefined"
NoDuration == -1
NoId == 0
StaleId == -1
NoTimer == 0
NoClear == [pushes |-> 0, played |-> 0]
NoEvent == [id |-> NoId, current |-> NoId]
NoDeadline == -1
\* no message on display: nothing sent, no timer armed on either side
NoRace == [n |-> 0, d |-> 0, lag |-> 0, now |-> 0, idx |-> 0, tick |-> NoDeadline,
           hide |-> NoDeadline, fade |-> NoDeadline, ack |-> NoDeadline,
           fallback |-> NoDeadline, budget |-> 0, emittedAt |-> NoDeadline,
           endedBy |-> "none"]

Priorities == {"low", "normal", "high"}
\* the priorities callers pass; an absent priority becomes "normal" in push()
PriorityInputs == {Undefined, "low", "high"}

VARIABLES
    \* MessageQueue
    queue,              \* private queue: QueuedMessage[]
    playing,            \* private _playing
    handler,            \* playHandler: "displayMessage" (BubbleManager) or "mock" (bare queue)
    played,             \* history: entries handed to the play callback, in order
    pushCount,          \* history: number of push() calls so far (gives each text its identity)
    dropped,            \* history: texts of the pushes that were discarded
    mockPending,        \* bare queue: promises of the mock play callback still pending
    drainCalls,         \* bare queue, history: done(), clear() and callback rejections so far
    \* BubbleManager
    bubbleWin,          \* this.bubbleWin !== null
    hideTimer,          \* this.hideTimer: NoTimer or the handle of a fallback timer
    timers,             \* fallback timers pending in the event loop (by the id they carry)
    messageSeq,         \* this.messageSeq
    currentMessageId,   \* this.currentMessageId
    moveUnlisten,       \* this.moveUnlisten !== null
    dismissUnlisten,    \* this.dismissUnlisten !== null
    tasks,              \* displayMessage calls suspended at an await
    \* init()
    initPc,             \* position of the init() call
    readyListener,      \* "none" | "registered" | "released"
    readyResolved,      \* readyPromise has resolved
    readyTimer,         \* the READY_TIMEOUT timer: "none" | "armed" | "fired"
    \* host
    surfaceVisible,     \* the bubble window is visible
    moveListening,      \* onMoved subscription is live
    dismissListening,   \* bubble:dismissed subscription is live
    \* observation
    callOrder,          \* history: host calls made by init(), in order
    shows,              \* history: bubble:show payloads sent, in order
    doneLog,            \* history: queue.done() calls made by onBubbleDismissed: [id, by]
    readyUnsubCalls,    \* history: calls of the bubble:ready unsubscribe function
    dismissedCount,     \* history: bubble:dismissed events delivered to the listener
    lastDismissed,      \* history: the last such event: the id it carried and the id current then
    disposeCalls,       \* history: dispose() calls
    closeCalls,         \* history: bubbleWin.close() calls
    faults,             \* history: show() / emitTo() calls the host has failed
    moveUnsubCalls,     \* history: calls of the onMoved unsubscribe function
    dismissUnsubCalls,  \* history: calls of the bubble:dismissed unsubscribe function
    initTimeoutAfter,   \* history: delay of the timer whose expiry rejected init(), or 0
    closePending,       \* dispose() calls suspended at await this.bubbleWin.close()
    disposeLog,         \* history: how each dispose() call settled, with the outcome of its close()
    disposedSeq,        \* history: messageSeq when dispose() was last called
    cleared,            \* history: pushCount and Len(played) when clear() last ran
    \* the renderer of the bubble window (bubble-entry.ts)
    rTypewriter,        \* typewriterTimer !== null
    rIdx,               \* idx: characters revealed so far
    rLen,               \* text.length of the message being revealed
    rHideTimer,         \* hideTimer !== null
    rFadeout,           \* fadeoutTimer !== null
    rFadeoutId,         \* dismissMessageId captured by the pending fade-out callback
    rCurrentMessageId,  \* currentMessageId of the renderer
    rShows,             \* history: bubble:show events received (their ids are 1..rShows)
    rHides,             \* history: bubble:hide events received
    rEmitted,           \* history: messageIds of the bubble:dismissed events emitted, in order
    \* SystemMonitor (features/system-monitor.ts)
    delayTimer,         \* this.delayTimer: NoTimer or the handle of the first-check timeout
    timer,              \* this.timer: NoTimer or the handle of the polling interval
    timeouts,           \* first-check timeouts pending in the event loop (by handle)
    intervals,          \* polling intervals live in the event loop (by handle)
    handleSeq,          \* the last timer handle the runtime handed out
    starting,           \* start() calls suspended at await this.storage.getPreferences()
    invoking,           \* poll() calls suspended at await invoke('get_system_stats')
    alerted,            \* this.lastAlertAt !== 0
    polls,              \* history: get_system_stats invocations
    alerts,             \* history: bubble.say() calls made by evaluate()
    startCalls,         \* history: start() calls
    stopCalls,          \* history: stop() calls made by the owner of the monitor
    stoppedSince,       \* history: stop() was called and start() has not been called since
    duringAwait,        \* history: start() or stop() was called while a start() was suspended
    \* initLifecycle (gracefulShutdown)
    gracefulShutdownStarted,  \* the flag of the same name
    shutdownPc,         \* the await the running gracefulShutdown() call is suspended at
    dirtyFlag,          \* localStorage holds 'bird-pet:dirty-shutdown'
    shutdownLog,        \* history: the calls of gracefulShutdown() and the calls it has made, in order
    shutdownFailed,     \* history: the awaits and calls of gracefulShutdown() that threw
    shutdownCalls,      \* history: gracefulShutdown() calls
    \* the quit handlers (menu 'quit', tray 'app:request-quit'), scenario SpecQuit only
    quitWaiting,        \* the handler suspended at await gracefulShutdown() of the running call
    emitting,           \* tray handlers suspended at await emit('app:shutdown-complete')
    exited,             \* exit(0) has been invoked
    \* init(), observed by the start-up scenario SpecInit only
    signals,            \* history: the signals init() has received, in order
    \* displayMessage, observed by the display scenario SpecDisplay only
    placed,             \* history: the sessions whose repositionBubble() has settled, and how
    \* one display on a common clock (scenario SpecRace): the renderer's timers and the
    \* manager's fallback timer with their deadlines in ms since bubble:show
    race

qvars == <<queue, playing, handler, played, pushCount, dropped, mockPending, drainCalls>>
mvars == <<bubbleWin, hideTimer, timers, messageSeq, currentMessageId,
           moveUnlisten, dismissUnlisten, tasks>>
ivars == <<initPc, readyListener, readyResolved, readyTimer>>
hvars == <<surfaceVisible, moveListening, dismissListening>>
ovars == <<callOrder, shows, doneLog, readyUnsubCalls, dismissedCount, lastDismissed,
           disposeCalls, closeCalls, faults, moveUnsubCalls, dismissUnsubCalls,
           initTimeoutAfter>>
dvars == <<closePending, disposeLog, disposedSeq, cleared>>
rvars == <<rTypewriter, rIdx, rLen, rHideTimer, rFadeout, rFadeoutId, rCurrentMessageId,
           rShows, rHides, rEmitted>>
svars == <<delayTimer, timer, timeouts, intervals, handleSeq, starting, invoking, alerted,
           polls, alerts, startCalls, stopCalls, stoppedSince, duringAwait>>
lvars == <<gracefulShutdownStarted, shutdownPc, dirtyFlag, shutdownLog, shutdownFailed,
           shutdownCalls>>
xvars == <<quitWaiting, emitting, exited>>
avars == <<svars, lvars, xvars, signals, placed, race>>
vars == <<qvars, mvars, ivars, hvars, ovars, dvars, rvars, avars>>

\* ---- the part of the state the queue and the display path act on ---------
St ==
    [queue |-> queue, playing |-> playing, played |-> played, mockPending |-> mockPending,
     hideTimer |-> hideTimer, timers |-> timers, messageSeq |-> messageSeq,
     currentMessageId |-> currentMessageId, tasks |-> tasks,
     surfaceVisible |-> surfaceVisible, shows |-> shows, doneLog |-> doneLog]

Assign(s) ==
    /\ queue' = s.queue
    /\ playing' = s.playing
    /\ played' = s.played
    /\ mockPending' = s.mockPending
    /\ hideTimer' = s.hideTimer
    /\ timers' = s.timers
    /\ messageSeq' = s.messageSeq
    /\ currentMessageId' = s.currentMessageId
    /\ tasks' = s.tasks
    /\ surfaceVisible' = s.surfaceVisible
    /\ shows' = s.shows
    /\ doneLog' = s.doneLog

\* ---- MessageQueue ---------------------------------------------------------
PRIORITY_WEIGHT(p) == CASE p = "high" -> 3 [] p = "normal" -> 2 [] p = "low" -> 1

WithWeight(q, w) == SelectSeq(q, LAMBDA m : PRIORITY_WEIGHT(m.priority) = w)

\* a wait list that is left in arrival order (no sort before the shift)
SortByArrival(q) == q

\* queue.sort((a, b) => PRIORITY_WEIGHT[b.priority] - PRIORITY_WEIGHT[a.priority]),
\* Array.prototype.sort being stable
SortByPriority(q) == WithWeight(q, 3) \o WithWeight(q, 2) \o WithWeight(q, 1)

\* clearHideTimer()
ClearHideTimer(s) ==
    IF s.hideTimer # NoTimer
    THEN [s EXCEPT !.timers = @ \ {s.hideTimer}, !.hideTimer = NoTimer]
    ELSE s

\* a displayMessage whose counter stops at 1: every session is "bubble-1"
DisplayMessageReusesId(s, msg) ==
    IF ~bubbleWin THEN s
    ELSE LET c == ClearHideTimer(s)
             id == 1
         IN [c EXCEPT !.messageSeq = id,
                      !.currentMessageId = id,
                      !.tasks = @ \cup {[id |-> id, msg |-> msg, pc |-> "show", ok |-> TRUE]}]

\* a displayMessage that arms the fallback timer first, before anything is shown
DisplayMessageArmsFirst(s, msg) ==
    IF ~bubbleWin THEN s
    ELSE LET c == ClearHideTimer(s)
             id == c.messageSeq + 1
         IN [c EXCEPT !.messageSeq = id,
                      !.currentMessageId = id,
                      !.hideTimer = id,
                      !.timers = @ \cup {id},
                      !.tasks = @ \cup {[id |-> id, msg |-> msg, pc |-> "show", ok |-> TRUE]}]

\* displayMessage(msg) up to its first await (inside repositionBubble). A suspended call
\* is at "show" (awaiting repositionBubble and show) or at "emit" (awaiting emitTo, which
\* the host has accepted or not: ok).
DisplayMessage(s, msg) ==
    IF ~bubbleWin THEN s
    ELSE LET c == ClearHideTimer(s)
             id == c.messageSeq + 1
         IN [c EXCEPT !.messageSeq = id,
                      !.currentMessageId = id,
                      !.tasks = @ \cup {[id |-> id, msg |-> msg, pc |-> "show", ok |-> TRUE]}]

\* this.playHandler?.(msg)
CallHandler(s, msg) ==
    LET r == [s EXCEPT !.played = Append(@, msg)]
    IN IF handler = "displayMessage" THEN DisplayMessage(r, msg)
       ELSE [r EXCEPT !.mockPending = @ + 1]

\* playNext() up to the await of the play callback
PlayNext(s) ==
    IF s.playing \/ Len(s.queue) = 0 THEN s
    ELSE LET sorted == SortByPriority(s.queue)
         IN CallHandler([s EXCEPT !.queue = Tail(sorted), !.playing = TRUE], Head(sorted))

\* forceNext() that first cancels the display in progress by hiding the surface
ForceNextHides(s) ==
    LET h == [s EXCEPT !.surfaceVisible = FALSE]
        sorted == SortByPriority(h.queue)
    IN IF Len(sorted) = 0 THEN [h EXCEPT !.playing = FALSE]
       ELSE CallHandler([h EXCEPT !.queue = Tail(sorted), !.playing = TRUE], Head(sorted))

\* forceNext() that puts the message it supersedes back at the end of the wait list
ForceNextRequeues(s) ==
    LET sorted == SortByPriority(s.queue)
        back == IF Len(s.played) = 0 THEN <<>> ELSE <<s.played[Len(s.played)]>>
    IN IF Len(sorted) = 0 THEN [s EXCEPT !.playing = FALSE]
       ELSE CallHandler([s EXCEPT !.queue = Tail(sorted) \o back, !.playing = TRUE],
                        Head(sorted))

\* forceNext() that leaves the High entry waiting
ForceNextNoPreempt(s) == s

\* forceNext() up to the await of the play callback
ForceNext(s) ==
    LET sorted == SortByPriority(s.queue)
    IN IF Len(sorted) = 0 THEN [s EXCEPT !.playing = FALSE]
       ELSE CallHandler([s EXCEPT !.queue = Tail(sorted), !.playing = TRUE], Head(sorted))

\* the QueuedMessage push() builds from a BubbleMessage
Queued(msg) ==
    [text |-> msg.text,
     duration |-> IF msg.duration = NoDuration THEN DEFAULT_DURATION ELSE msg.duration,
     priority |-> IF msg.priority = Undefined THEN "normal" ELSE msg.priority]

\* a bound check that discards every non-High message once the wait list is full
DropsAnyPriority(s, msg) ==
    /\ Queued(msg).priority # "high"
    /\ Len(s.queue) >= MAX_QUEUE_SIZE

\* a bound check that is off by one: discards only above MAX_QUEUE_SIZE
DropsAboveBound(s, msg) ==
    /\ Queued(msg).priority # "high"
    /\ Len(s.queue) > MAX_QUEUE_SIZE
    /\ Queued(msg).priority = "low"

\* push() discards the message
Drops(s, msg) ==
    /\ Queued(msg).priority # "high"
    /\ Len(s.queue) >= MAX_QUEUE_SIZE
    /\ Queued(msg).priority = "low"

\* a push() that treats a High message like any other: it joins the wait list and is
\* started only if nothing is playing
PushHighWaits(s, msg) ==
    LET queued == Queued(msg)
    IN IF Drops(s, msg) THEN s
       ELSE PlayNext([s EXCEPT !.queue = Append(@, queued)])

\* push(msg)
Push(s, msg) ==
    LET queued == Queued(msg)
    IN IF queued.priority = "high"
       THEN LET u == [s EXCEPT !.queue = <<queued>> \o @]
            IN IF u.playing THEN ForceNext(u) ELSE PlayNext(u)
       ELSE IF Drops(s, msg) THEN s
            ELSE PlayNext([s EXCEPT !.queue = Append(@, queued)])

\* done()
Done(s) == PlayNext([s EXCEPT !.playing = FALSE])

\* a clear() that resets the playing flag and keeps the wait list
ClearKeepsQueue(s) == [s EXCEPT !.playing = FALSE]

\* clear()
Clear(s) == [s EXCEPT !.queue = <<>>, !.playing = FALSE]

\* a catch block that only logs: the playing flag stays set
HandlerRejectedKeepsPlaying(s) == s

\* the catch block of playNext() / forceNext()
HandlerRejected(s) == PlayNext([s EXCEPT !.playing = FALSE])

\* ---- BubbleManager --------------------------------------------------------
\* onBubbleDismissed without the comparison with currentMessageId
OnBubbleDismissedAnyId(s, messageId, by) ==
    IF messageId = NoId \/ s.currentMessageId = NoId THEN s
    ELSE LET c == [s EXCEPT !.timers = @ \ {s.hideTimer}, !.hideTimer = NoTimer]
         IN [c EXCEPT !.surfaceVisible = FALSE,
                      !.currentMessageId = NoId,
                      !.playing = FALSE,
                      !.doneLog = Append(@, [id |-> messageId, by |-> by])]

\* onBubbleDismissed that neither cancels the timer nor clears currentMessageId
OnBubbleDismissedKeepsId(s, messageId, by) ==
    IF messageId = NoId \/ messageId # s.currentMessageId THEN s
    ELSE LET c == [s EXCEPT !.surfaceVisible = FALSE,
                            !.playing = FALSE,
                            !.doneLog = Append(@, [id |-> messageId, by |-> by])]
         IN IF Len(c.queue) = 0 THEN c
            ELSE [c EXCEPT !.queue = Tail(SortByPriority(@)), !.playing = TRUE,
                           !.played = Append(@, Head(SortByPriority(c.queue)))]

\* onBubbleDismissed without the test for an empty messageId
OnBubbleDismissedAcceptsEmpty(s, messageId, by) ==
    IF messageId # s.currentMessageId THEN s
    ELSE LET c == ClearHideTimer(s)
         IN Done([c EXCEPT !.surfaceVisible = FALSE,
                           !.currentMessageId = NoId,
                           !.doneLog = Append(@, [id |-> messageId, by |-> by])])

\* onBubbleDismissed(messageId), reached from the listener ("ack") or the fallback timer ("timer")
OnBubbleDismissed(s, messageId, by) ==
    IF messageId = NoId \/ messageId # s.currentMessageId THEN s
    ELSE LET c == ClearHideTimer(s)
         IN Done([c EXCEPT !.surfaceVisible = FALSE,
                           !.currentMessageId = NoId,
                           !.doneLog = Append(@, [id |-> messageId, by |-> by])])

\* ids a bubble:dismissed event can carry: '' (hideBubble before any show), an id
\* the renderer received in a bubble:show, or an id that was never minted
DismissIds == {NoId, StaleId} \cup {shows[i].messageId : i \in 1..Len(shows)}

\* the renderer after its script has run: no timer, no message
RendererBoot ==
    /\ rTypewriter = FALSE
    /\ rIdx = 0
    /\ rLen = 0
    /\ rHideTimer = FALSE
    /\ rFadeout = FALSE
    /\ rFadeoutId = NoId
    /\ rCurrentMessageId = NoId
    /\ rShows = 0
    /\ rHides = 0
    /\ rEmitted = <<>>

\* a SystemMonitor after construction: no timer, never started
MonitorBoot ==
    /\ delayTimer = NoTimer
    /\ timer = NoTimer
    /\ timeouts = {}
    /\ intervals = {}
    /\ handleSeq = 0
    /\ starting = 0
    /\ invoking = 0
    /\ alerted = FALSE
    /\ polls = 0
    /\ alerts = 0
    /\ startCalls = 0
    /\ stopCalls = 0
    /\ stoppedSince = FALSE
    /\ duringAwait = FALSE

\* initLifecycle() has returned and gracefulShutdown() has not been called
LifecycleBoot ==
    /\ gracefulShutdownStarted = FALSE
    /\ shutdownPc = "notCalled"
    /\ dirtyFlag = FALSE
    /\ shutdownLog = <<>>
    /\ shutdownFailed = {}
    /\ shutdownCalls = 0

\* no quit was requested
QuitBoot ==
    /\ quitWaiting = "none"
    /\ emitting = 0
    /\ exited = FALSE

\* the modules around the bubble subsystem, after construction
AppBoot ==
    /\ MonitorBoot
    /\ LifecycleBoot
    /\ QuitBoot
    /\ signals = <<>>
    /\ placed = {}
    /\ race = NoRace

TypeOK ==
    /\ playing \in BOOLEAN
    /\ handler \in {"displayMessage", "mock"}
    /\ pushCount \in Nat
    /\ bubbleWin \in BOOLEAN
    /\ hideTimer \in {NoTimer} \cup Nat
    /\ timers \subseteq Nat
    /\ messageSeq \in Nat
    /\ currentMessageId \in Nat
    /\ initPc \in {"notCalled", "awaitCreated", "awaitReady", "awaitOnMoved",
                   "awaitListenDismissed", "resolved", "rejectedCreate", "rejectedTimeout"}
    /\ readyListener \in {"none", "registered", "released"}
    /\ readyTimer \in {"none", "armed", "fired"}

Init ==
    /\ queue = <<>>
    /\ playing = FALSE
    /\ handler = "displayMessage"
    /\ played = <<>>
    /\ pushCount = 0
    /\ dropped = {}
    /\ mockPending = 0
    /\ drainCalls = 0
    /\ bubbleWin = FALSE
    /\ hideTimer = NoTimer
    /\ timers = {}
    /\ messageSeq = 0
    /\ currentMessageId = NoId
    /\ moveUnlisten = FALSE
    /\ dismissUnlisten = FALSE
    /\ tasks = {}
    /\ initPc = "notCalled"
    /\ readyListener = "none"
    /\ readyResolved = FALSE
    /\ readyTimer = "none"
    /\ surfaceVisible = FALSE
    /\ moveListening = FALSE
    /\ dismissListening = FALSE
    /\ callOrder = <<>>
    /\ shows = <<>>
    /\ doneLog = <<>>
    /\ readyUnsubCalls = 0
    /\ dismissedCount = 0
    /\ lastDismissed = NoEvent
    /\ disposeCalls = 0
    /\ closeCalls = 0
    /\ faults = 0
    /\ moveUnsubCalls = 0
    /\ dismissUnsubCalls = 0
    /\ initTimeoutAfter = 0
    /\ closePending = 0
    /\ disposeLog = <<>>
    /\ disposedSeq = 0
    /\ cleared = NoClear
    /\ RendererBoot
    /\ AppBoot

\* ---- init() ---------------------------------------------------------------
\* init() that creates the window first and registers the listener afterwards
InitCallCreatesFirst ==
    /\ handler = "displayMessage"
    /\ initPc = "notCalled"
    /\ readyListener' = "registered"
    /\ bubbleWin' = TRUE
    /\ callOrder' = callOrder \o <<"new WebviewWindow", "listen:bubble:ready">>
    /\ initPc' = "awaitCreated"
    /\ UNCHANGED <<qvars, hideTimer, timers, messageSeq, currentMessageId, moveUnlisten,
                   dismissUnlisten, tasks, readyResolved, readyTimer, hvars, shows, doneLog,
                   readyUnsubCalls, dismissedCount, lastDismissed, disposeCalls, closeCalls,
                   faults, moveUnsubCalls, dismissUnsubCalls, initTimeoutAfter, dvars, rvars, avars>>

\* init() up to the await of tauri://created / tauri://error:
\* listen('bubble:ready', ...) and then new WebviewWindow('bubble', ...)
InitCall ==
    /\ handler = "displayMessage"
    /\ initPc = "notCalled"
    /\ readyListener' = "registered"
    /\ bubbleWin' = TRUE
    /\ callOrder' = callOrder \o <<"listen:bubble:ready", "new WebviewWindow">>
    /\ initPc' = "awaitCreated"
    /\ UNCHANGED <<qvars, hideTimer, timers, messageSeq, currentMessageId, moveUnlisten,
                   dismissUnlisten, tasks, readyResolved, readyTimer, hvars, shows, doneLog,
                   readyUnsubCalls, dismissedCount, lastDismissed, disposeCalls, closeCalls, faults, moveUnsubCalls,
                   dismissUnsubCalls, initTimeoutAfter, dvars, rvars, avars>>

\* the finally block: const readyUnsub = await readyUnsubPromise; readyUnsub().
\* The listen call was issued before the window was created, so its promise has
\* resolved by the time the race is decided.
ReleaseReady ==
    /\ readyListener' = "released"
    /\ readyUnsubCalls' = readyUnsubCalls + 1

\* tauri://created: the try block starts, Promise.race arms the READY_TIMEOUT timer;
\* a readyPromise that is already resolved wins the race at once
HostCreatedBody ==
    /\ initPc = "awaitCreated"
    /\ readyTimer' = "armed"
    /\ IF readyResolved
       THEN ReleaseReady /\ initPc' = "awaitOnMoved"
       ELSE initPc' = "awaitReady" /\ UNCHANGED <<readyListener, readyUnsubCalls>>
    /\ UNCHANGED <<qvars, mvars, readyResolved, hvars, callOrder, shows, doneLog,
                   dismissedCount, lastDismissed, disposeCalls, closeCalls, faults, moveUnsubCalls,
                   dismissUnsubCalls, initTimeoutAfter, dvars, rvars, svars, lvars, xvars, placed, race>>

HostCreated == HostCreatedBody /\ UNCHANGED signals

\* tauri://error handled like tauri://created: init() goes on to wait for bubble:ready
HostErrorWaits ==
    /\ initPc = "awaitCreated"
    /\ readyTimer' = "armed"
    /\ initPc' = "awaitReady"
    /\ UNCHANGED <<qvars, mvars, readyListener, readyResolved, hvars, ovars, dvars, rvars, avars>>

\* tauri://error: the await that precedes the try block rejects, init() rejects
HostError ==
    /\ initPc = "awaitCreated"
    /\ initPc' = "rejectedCreate"
    /\ UNCHANGED <<qvars, mvars, readyListener, readyResolved, readyTimer, hvars, ovars, dvars, rvars, avars>>

\* a bubble:ready listener registered only once the window exists: an event that
\* arrives before tauri://created finds nobody and is lost
BubbleReadyForgets ==
    /\ readyListener = "registered"
    /\ initPc \in {"awaitCreated", "awaitReady"}
    /\ ~readyResolved
    /\ readyResolved' = (initPc = "awaitReady")
    /\ IF initPc = "awaitReady"
       THEN ReleaseReady /\ initPc' = "awaitOnMoved"
       ELSE UNCHANGED <<initPc, readyListener, readyUnsubCalls>>
    /\ UNCHANGED <<qvars, mvars, readyTimer, hvars, callOrder, shows, doneLog,
                   dismissedCount, lastDismissed, disposeCalls, closeCalls, faults, moveUnsubCalls,
                   dismissUnsubCalls, initTimeoutAfter, dvars, rvars, svars, lvars, xvars, placed, race>>

\* bubble:ready reaches the listener: readyResolve()
BubbleReadyBody ==
    /\ readyListener = "registered"
    /\ initPc \in {"awaitCreated", "awaitReady"}
    /\ ~readyResolved
    /\ readyResolved' = TRUE
    /\ IF initPc = "awaitReady"
       THEN ReleaseReady /\ initPc' = "awaitOnMoved"
       ELSE UNCHANGED <<initPc, readyListener, readyUnsubCalls>>
    /\ UNCHANGED <<qvars, mvars, readyTimer, hvars, callOrder, shows, doneLog,
                   dismissedCount, lastDismissed, disposeCalls, closeCalls, faults, moveUnsubCalls,
                   dismissUnsubCalls, initTimeoutAfter, dvars, rvars, svars, lvars, xvars, placed, race>>

BubbleReady == BubbleReadyBody /\ UNCHANGED signals

\* a timeout path that rejects without running the finally block
ReadyTimeoutLeaks ==
    /\ readyTimer = "armed"
    /\ initPc = "awaitReady"
    /\ readyTimer' = "fired"
    /\ initPc' = "rejectedTimeout"
    /\ initTimeoutAfter' = READY_TIMEOUT
    /\ UNCHANGED <<qvars, mvars, readyListener, readyResolved, hvars, callOrder, shows,
                   doneLog, readyUnsubCalls, dismissedCount, lastDismissed, disposeCalls,
                   closeCalls, faults, moveUnsubCalls, dismissUnsubCalls, dvars, rvars, avars>>

\* the READY_TIMEOUT timer expires while the race is undecided: init() rejects.
\* (An expiry after the race was decided rejects a settled promise: no effect.)
ReadyTimeout ==
    /\ readyTimer = "armed"
    /\ initPc = "awaitReady"
    /\ readyTimer' = "fired"
    /\ ReleaseReady
    /\ initPc' = "rejectedTimeout"
    /\ initTimeoutAfter' = READY_TIMEOUT
    /\ UNCHANGED <<qvars, mvars, readyResolved, hvars, callOrder, shows, doneLog,
                   dismissedCount, lastDismissed, disposeCalls, closeCalls, faults, moveUnsubCalls,
                   dismissUnsubCalls, dvars, rvars, avars>>

\* this.moveUnlisten = await this.mainWin.onMoved(...)
InitOnMoved ==
    /\ initPc = "awaitOnMoved"
    /\ moveUnlisten' = TRUE
    /\ moveListening' = TRUE
    /\ initPc' = "awaitListenDismissed"
    /\ UNCHANGED <<qvars, bubbleWin, hideTimer, timers, messageSeq, currentMessageId,
                   dismissUnlisten, tasks, readyListener, readyResolved, readyTimer,
                   surfaceVisible, dismissListening, ovars, dvars, rvars, avars>>

\* this.dismissUnlisten = await listen('bubble:dismissed', ...)
InitListenDismissed ==
    /\ initPc = "awaitListenDismissed"
    /\ dismissUnlisten' = TRUE
    /\ dismissListening' = TRUE
    /\ initPc' = "resolved"
    /\ UNCHANGED <<qvars, bubbleWin, hideTimer, timers, messageSeq, currentMessageId,
                   moveUnlisten, tasks, readyListener, readyResolved, readyTimer,
                   surfaceVisible, moveListening, ovars, dvars, rvars, avars>>

\* ---- BubbleManager operations ----------------------------------------------
\* the BubbleMessage values a caller passes
Messages(text) ==
    {[text |-> text, duration |-> IF p = Undefined THEN NoDuration ELSE 500, priority |-> p] :
        p \in PriorityInputs}

\* say(msg) / sayText(text, priority): this.queue.push(msg)
SayCall(msg) ==
    /\ handler = "displayMessage"
    /\ pushCount' = pushCount + 1
    /\ dropped' = IF Drops(St, msg) THEN dropped \cup {msg.text} ELSE dropped
    /\ Assign(Push(St, msg))
    /\ UNCHANGED <<handler, drainCalls, bubbleWin, moveUnlisten, dismissUnlisten, ivars, moveListening,
                   dismissListening, callOrder, readyUnsubCalls, dismissedCount, lastDismissed, disposeCalls,
                   closeCalls, faults, moveUnsubCalls, dismissUnsubCalls, initTimeoutAfter, dvars, rvars, avars>>

Say(msg) == pushCount < MaxSay /\ SayCall(msg)

\* the bubble:dismissed listener runs: this.onBubbleDismissed(event.payload.messageId)
Dismissed(id) ==
    /\ dismissListening
    /\ dismissedCount < MaxDismissed
    /\ dismissedCount' = dismissedCount + 1
    /\ lastDismissed' = [id |-> id, current |-> currentMessageId]
    /\ Assign(OnBubbleDismissed(St, id, "ack"))
    /\ UNCHANGED <<handler, pushCount, dropped, drainCalls, bubbleWin, moveUnlisten, dismissUnlisten, ivars,
                   moveListening, dismissListening, callOrder, readyUnsubCalls, disposeCalls,
                   closeCalls, faults, moveUnsubCalls, dismissUnsubCalls, initTimeoutAfter, dvars, rvars, avars>>

\* a fallback timer expires: this.onBubbleDismissed(messageId)
TimerFire(id) ==
    /\ id \in timers
    /\ Assign(OnBubbleDismissed([St EXCEPT !.timers = @ \ {id}], id, "timer"))
    /\ UNCHANGED <<handler, pushCount, dropped, drainCalls, bubbleWin, moveUnlisten, dismissUnlisten, ivars,
                   moveListening, dismissListening, callOrder, readyUnsubCalls, dismissedCount, lastDismissed,
                   disposeCalls, closeCalls, faults, moveUnsubCalls, dismissUnsubCalls, initTimeoutAfter, dvars, rvars, avars>>

TaskFrame ==
    UNCHANGED <<handler, pushCount, dropped, drainCalls, bubbleWin, moveUnlisten,
                dismissUnlisten, ivars, moveListening, dismissListening, callOrder,
                readyUnsubCalls, dismissedCount, lastDismissed, disposeCalls, closeCalls,
                moveUnsubCalls, dismissUnsubCalls, initTimeoutAfter, dvars, rvars, avars>>

\* the bubble:show payload displayMessage builds
ShowPayload(t) == [text |-> t.msg.text, duration |-> t.msg.duration, messageId |-> t.id]

\* displayMessage: repositionBubble() (whose errors are caught inside it) and
\* this.bubbleWin.show() have settled. If show() failed the play callback rejects;
\* otherwise the surface is visible and emitTo('bubble', 'bubble:show', payload) is
\* called, the host delivering the instruction (emitOk) or not.
ShowSettled(t, showOk, emitOk) ==
    /\ t \in tasks
    /\ t.pc = "show"
    /\ (showOk /\ emitOk) \/ faults < MaxFaults
    /\ faults' = IF showOk /\ emitOk THEN faults ELSE faults + 1
    /\ IF showOk
       THEN Assign([St EXCEPT !.tasks = (@ \ {t}) \cup {[t EXCEPT !.pc = "emit", !.ok = emitOk]},
                              !.surfaceVisible = TRUE,
                              !.shows = IF emitOk THEN Append(@, ShowPayload(t)) ELSE @])
       ELSE /\ emitOk
            /\ Assign(HandlerRejected([St EXCEPT !.tasks = @ \ {t}]))
    /\ TaskFrame

\* displayMessage: emitTo has settled; on success the fallback timer is armed,
\* on failure the play callback rejects
EmitSettled(t) ==
    /\ t \in tasks
    /\ t.pc = "emit"
    /\ UNCHANGED faults
    /\ IF t.ok
       THEN Assign([St EXCEPT !.tasks = @ \ {t},
                              !.hideTimer = t.id,
                              !.timers = @ \cup {t.id}])
       ELSE Assign(HandlerRejected([St EXCEPT !.tasks = @ \ {t}]))
    /\ TaskFrame

\* dispose() up to its await: queue.clear(), clearHideTimer(), currentMessageId = '',
\* moveUnlisten?.(), dismissUnlisten?.(), then this.bubbleWin?.close() is called.
\* Without a window the awaited value is undefined and dispose() resolves.
DisposeBody ==
    /\ handler = "displayMessage"
    /\ disposeCalls' = disposeCalls + 1
    /\ Assign([ClearHideTimer(Clear(St)) EXCEPT !.currentMessageId = NoId])
    /\ moveListening' = IF moveUnlisten THEN FALSE ELSE moveListening
    /\ moveUnsubCalls' = IF moveUnlisten THEN moveUnsubCalls + 1 ELSE moveUnsubCalls
    /\ dismissListening' = IF dismissUnlisten THEN FALSE ELSE dismissListening
    /\ dismissUnsubCalls' = IF dismissUnlisten THEN dismissUnsubCalls + 1 ELSE dismissUnsubCalls
    /\ closeCalls' = IF bubbleWin THEN closeCalls + 1 ELSE closeCalls
    /\ closePending' = IF bubbleWin THEN closePending + 1 ELSE closePending
    /\ disposeLog' = IF bubbleWin THEN disposeLog
                     ELSE Append(disposeLog, [close |-> "none", outcome |-> "resolved"])
    /\ disposedSeq' = messageSeq
    /\ cleared' = [pushes |-> pushCount, played |-> Len(played)]
    /\ UNCHANGED <<handler, pushCount, dropped, drainCalls, bubbleWin, moveUnlisten, dismissUnlisten, ivars,
                   callOrder, readyUnsubCalls, dismissedCount, lastDismissed, faults,
                   initTimeoutAfter, rvars>>

\* dispose() called on its own
DisposeCall == DisposeBody /\ UNCHANGED avars

Dispose == disposeCalls < MaxDispose /\ DisposeCall

\* a dispose() that lets a failed close() escape
CloseSettledPropagates(ok) ==
    /\ closePending > 0
    /\ closePending' = closePending - 1
    /\ disposeLog' = Append(disposeLog, [close |-> IF ok THEN "closed" ELSE "failed",
                                         outcome |-> IF ok THEN "resolved" ELSE "rejected"])
    /\ UNCHANGED <<qvars, mvars, ivars, hvars, ovars, disposedSeq, cleared, rvars, avars>>

\* the close() promise settles: try { await ... } catch { } swallows a failure and
\* dispose() resolves
CloseSettled(ok) ==
    /\ closePending > 0
    /\ closePending' = closePending - 1
    /\ disposeLog' = Append(disposeLog, [close |-> IF ok THEN "closed" ELSE "failed",
                                         outcome |-> "resolved"])
    /\ UNCHANGED <<qvars, mvars, ivars, hvars, ovars, disposedSeq, cleared, rvars, avars>>

\* the steps of a manager in service
Steady ==
    \/ \E id \in DismissIds : Dismissed(id)
    \/ \E id \in timers : TimerFire(id)
    \/ \E t \in tasks, showOk \in BOOLEAN, emitOk \in BOOLEAN : ShowSettled(t, showOk, emitOk)
    \/ \E t \in tasks : EmitSettled(t)

\* the whole life of a BubbleManager, from construction
Next ==
    \/ InitCall
    \/ HostCreated
    \/ HostError
    \/ BubbleReady
    \/ ReadyTimeout
    \/ InitOnMoved
    \/ InitListenDismissed
    \/ \E msg \in Messages(pushCount + 1) : Say(msg)
    \/ Steady
    \/ Dispose
    \/ \E ok \in BOOLEAN : CloseSettled(ok)

Spec == Init /\ [][Next]_vars

\* What the runtime schedules on its own: the host reports the window as created or
\* failed, armed timers expire, and pending host promises settle. Callers and the
\* renderer (say, dispose, bubble:ready, bubble:dismissed) owe nothing.
FairSpec ==
    /\ Spec
    /\ WF_vars(HostCreated \/ HostError)
    /\ WF_vars(ReadyTimeout)
    /\ WF_vars(InitOnMoved)
    /\ WF_vars(InitListenDismissed)
    /\ WF_vars(\E id \in timers : TimerFire(id))
    /\ WF_vars(\E t \in tasks, showOk \in BOOLEAN, emitOk \in BOOLEAN :
                    ShowSettled(t, showOk, emitOk))
    /\ WF_vars(\E t \in tasks : EmitSettled(t))
    /\ WF_vars(\E ok \in BOOLEAN : CloseSettled(ok))

\* a BubbleManager whose init() has resolved and that has not been used yet
InitIdle ==
    /\ queue = <<>>
    /\ playing = FALSE
    /\ handler = "displayMessage"
    /\ played = <<>>
    /\ pushCount = 0
    /\ dropped = {}
    /\ mockPending = 0
    /\ drainCalls = 0
    /\ bubbleWin = TRUE
    /\ hideTimer = NoTimer
    /\ timers = {}
    /\ messageSeq = 0
    /\ currentMessageId = NoId
    /\ moveUnlisten = TRUE
    /\ dismissUnlisten = TRUE
    /\ tasks = {}
    /\ initPc = "resolved"
    /\ readyListener = "released"
    /\ readyResolved = TRUE
    /\ readyTimer = "armed"
    /\ surfaceVisible = FALSE
    /\ moveListening = TRUE
    /\ dismissListening = TRUE
    /\ callOrder = <<"listen:bubble:ready", "new WebviewWindow">>
    /\ shows = <<>>
    /\ doneLog = <<>>
    /\ readyUnsubCalls = 1
    /\ dismissedCount = 0
    /\ lastDismissed = NoEvent
    /\ disposeCalls = 0
    /\ closeCalls = 0
    /\ faults = 0
    /\ moveUnsubCalls = 0
    /\ dismissUnsubCalls = 0
    /\ initTimeoutAfter = 0
    /\ closePending = 0
    /\ disposeLog = <<>>
    /\ disposedSeq = 0
    /\ cleared = NoClear
    /\ RendererBoot
    /\ AppBoot

\* ---- the bare MessageQueue, driven as its unit tests drive it ---------------
InitQueue ==
    /\ queue = <<>>
    /\ playing = FALSE
    /\ handler = "mock"
    /\ played = <<>>
    /\ pushCount = 0
    /\ dropped = {}
    /\ mockPending = 0
    /\ drainCalls = 0
    /\ bubbleWin = FALSE
    /\ hideTimer = NoTimer
    /\ timers = {}
    /\ messageSeq = 0
    /\ currentMessageId = NoId
    /\ moveUnlisten = FALSE
    /\ dismissUnlisten = FALSE
    /\ tasks = {}
    /\ initPc = "notCalled"
    /\ readyListener = "none"
    /\ readyResolved = FALSE
    /\ readyTimer = "none"
    /\ surfaceVisible = FALSE
    /\ moveListening = FALSE
    /\ dismissListening = FALSE
    /\ callOrder = <<>>
    /\ shows = <<>>
    /\ doneLog = <<>>
    /\ readyUnsubCalls = 0
    /\ dismissedCount = 0
    /\ lastDismissed = NoEvent
    /\ disposeCalls = 0
    /\ closeCalls = 0
    /\ faults = 0
    /\ moveUnsubCalls = 0
    /\ dismissUnsubCalls = 0
    /\ initTimeoutAfter = 0
    /\ closePending = 0
    /\ disposeLog = <<>>
    /\ disposedSeq = 0
    /\ cleared = NoClear
    /\ RendererBoot
    /\ AppBoot

QueueFrame == UNCHANGED <<handler, mvars, ivars, hvars, ovars, closePending, disposeLog, disposedSeq, rvars, avars>>

\* queue.push(msg)
QPush(msg) ==
    /\ handler = "mock"
    /\ pushCount < MaxPushQ
    /\ pushCount' = pushCount + 1
    /\ dropped' = IF Drops(St, msg) THEN dropped \cup {msg.text} ELSE dropped
    /\ LET r == Push(St, msg)
       IN queue' = r.queue /\ playing' = r.playing /\ played' = r.played
          /\ mockPending' = r.mockPending
    /\ UNCHANGED drainCalls
    /\ UNCHANGED cleared
    /\ QueueFrame

\* queue.done()
QDone ==
    /\ handler = "mock"
    /\ LET r == Done(St)
       IN queue' = r.queue /\ playing' = r.playing /\ played' = r.played
          /\ mockPending' = r.mockPending
    /\ drainCalls < MaxDrain
    /\ drainCalls' = drainCalls + 1
    /\ UNCHANGED <<pushCount, dropped>>
    /\ UNCHANGED cleared
    /\ QueueFrame

\* queue.clear()
QClear ==
    /\ handler = "mock"
    /\ LET r == Clear(St)
       IN queue' = r.queue /\ playing' = r.playing /\ played' = r.played
          /\ mockPending' = r.mockPending
    /\ drainCalls < MaxDrain
    /\ drainCalls' = drainCalls + 1
    /\ UNCHANGED <<pushCount, dropped>>
    /\ cleared' = [pushes |-> pushCount, played |-> Len(played)]
    /\ QueueFrame

\* a promise returned by the mock play callback rejects: the catch block runs.
\* (A promise that resolves, or stays pending, has no effect on the queue.)
QReject ==
    /\ handler = "mock"
    /\ mockPending > 0
    /\ LET r == HandlerRejected([St EXCEPT !.mockPending = @ - 1])
       IN queue' = r.queue /\ playing' = r.playing /\ played' = r.played
          /\ mockPending' = r.mockPending
    /\ drainCalls < MaxDrain
    /\ drainCalls' = drainCalls + 1
    /\ UNCHANGED <<pushCount, dropped>>
    /\ UNCHANGED cleared
    /\ QueueFrame

NextQueue ==
    \/ \E msg \in Messages(pushCount + 1) : QPush(msg)
    \/ QDone
    \/ QClear
    \/ QReject

SpecQueue == InitQueue /\ [][NextQueue]_vars

\* ---- observations shared by the claims -----------------------------------
\* the sessions queue.done() was called for, by the path that called it
EndedBy(by) == {doneLog[i].id : i \in {j \in 1..Len(doneLog) : doneLog[j].by = by}}

\* queue.done() was called at most once for every session
DoneAtMostOncePerSession ==
    \A i, j \in 1..Len(doneLog) : doneLog[i].id = doneLog[j].id => i = j

\* ---- C1 -------------------------------------------------------------------
\* the state a mismatched acknowledgment must leave alone
SessionState ==
    <<timers, hideTimer, surfaceVisible, currentMessageId, doneLog, shows, queue, playing,
      played, tasks, messageSeq>>

\* C1: while a message is current, a bubble:dismissed event carrying any other id
\* (the empty id, an id never minted, the id of a superseded session) changes nothing:
\* the fallback timer stays armed, the surface is not hidden, currentMessageId stays,
\* queue.done() is not called and no bubble:show is sent.
C1_StaleDismissedIsNoop ==
    [][\A id \in DismissIds :
          (currentMessageId # NoId /\ id # currentMessageId /\ Dismissed(id))
              => UNCHANGED SessionState]_vars

\* a superseded session's id was delivered while its successor was displaying with
\* its fallback timer armed, and the successor is still displaying
C1_Witness ==
    /\ lastDismissed.current # NoId
    /\ lastDismissed.id \notin {NoId, StaleId, lastDismissed.current}
    /\ currentMessageId = lastDismissed.current
    /\ currentMessageId \in timers
    /\ hideTimer = currentMessageId
    /\ surfaceVisible
    /\ doneLog = <<>>

\* ---- C2 -------------------------------------------------------------------
\* The pre-emption scenario of the test suite, on a manager whose init() has resolved:
\* say(normal-1); once it is displaying, say(normal-2); while normal-1 is still
\* displaying, say(urgent, high). Acknowledgments carry ids the renderer was shown.
Normal1 == [text |-> 1, duration |-> 500, priority |-> "normal"]
Normal2 == [text |-> 2, duration |-> 500, priority |-> "normal"]
Urgent == [text |-> 3, duration |-> 500, priority |-> "high"]

ShownIds == {shows[i].messageId : i \in 1..Len(shows)}
ShowTexts == [i \in 1..Len(shows) |-> shows[i].text]
IsPrefix(a, b) == Len(a) <= Len(b) /\ \A i \in 1..Len(a) : a[i] = b[i]

Displaying(id) == id # NoId /\ currentMessageId = id /\ id \in ShownIds

SayNormal1 == pushCount = 0 /\ SayCall(Normal1)

SayNormal2 == pushCount = 1 /\ Displaying(1) /\ SayCall(Normal2)

SayUrgent ==
    /\ pushCount = 2
    /\ Displaying(1)
    /\ queue = <<Queued(Normal2)>>
    /\ SayCall(Urgent)

NextPreempt ==
    \/ SayNormal1
    \/ SayNormal2
    \/ SayUrgent
    \/ \E id \in ShownIds : Dismissed(id)
    \/ \E id \in timers : TimerFire(id)
    \/ \E t \in tasks, showOk \in BOOLEAN, emitOk \in BOOLEAN : ShowSettled(t, showOk, emitOk)
    \/ \E t \in tasks : EmitSettled(t)

SpecPreempt == InitIdle /\ [][NextPreempt]_vars

\* C2: a High message H pushed while Normal N1 is displaying and Normal N2 is waiting
\* starts its session at once (N2 keeps waiting); while the host accepts the display
\* calls the bubble:show instructions go out in the order N1, H, N2; N1's session is
\* never ended by a dismissal carrying N1's id, which changes nothing; and the
\* dismissal carrying H's id calls queue.done() once and hands N2 to the display.
C2_PreemptionOrder ==
    /\ [](pushCount = 3 =>
            /\ Len(played) >= 2 /\ played[2] = Queued(Urgent)
            /\ IsPrefix(played, <<Queued(Normal1), Queued(Urgent), Queued(Normal2)>>)
            /\ (Len(played) = 2 => queue = <<Queued(Normal2)>>)
            /\ (faults = 0 => IsPrefix(ShowTexts, <<1, 3, 2>>))
            /\ 1 \notin EndedBy("ack") \cup EndedBy("timer")
            /\ DoneAtMostOncePerSession)
    /\ [][SayUrgent => currentMessageId' = 2 /\ played' = Append(played, Queued(Urgent))
                       /\ queue' = queue /\ shows' = shows]_vars
    /\ [][(pushCount = 3 /\ currentMessageId = 2 /\ Dismissed(1))
            => UNCHANGED SessionState]_vars
    /\ [][(pushCount = 3 /\ currentMessageId = 2 /\ Dismissed(2))
            => /\ doneLog' = Append(doneLog, [id |-> 2, by |-> "ack"])
               /\ played' = Append(played, Queued(Normal2))
               /\ queue' = <<>>
               /\ currentMessageId' = 3]_vars

\* N1, H, N2 were shown in this order; the first dismissal (N1's id, after the
\* pre-emption) changed nothing and the second (H's id) advanced the queue to N2
C2_Witness ==
    /\ ShowTexts = <<1, 3, 2>>
    /\ dismissedCount = 2
    /\ lastDismissed = [id |-> 2, current |-> 2]
    /\ doneLog = <<[id |-> 2, by |-> "ack"]>>
    /\ 1 \notin timers
    /\ currentMessageId = 3

PlayedTexts == {played[i].text : i \in 1..Len(played)}
WaitingTexts == {queue[i].text : i \in 1..Len(queue)}

\* C4: after init() has resolved, and without any bubble:dismissed, every message that
\* waits in the queue is eventually handed to the display callback (unless dispose()
\* clears the queue), and every running session eventually ends.
C4_ForwardProgress ==
    /\ \A k \in 1..MaxSay :
          (initPc = "resolved" /\ k \in WaitingTexts) ~> (k \in PlayedTexts \/ disposeCalls > 0)
    /\ \A id \in 1..MaxSay :
          (initPc = "resolved" /\ currentMessageId = id /\ id \in ShownIds)
              ~> (currentMessageId # id)

\* ---- C5 -------------------------------------------------------------------
\* C5: in init(), listen('bubble:ready') is called strictly before new WebviewWindow:
\* every creation in the call log is preceded by the registration, and the window
\* exists only while or after the listener was registered.
C5_ListenBeforeCreate ==
    /\ \A j \in 1..Len(callOrder) :
          callOrder[j] = "new WebviewWindow"
              => \E i \in 1..(j - 1) : callOrder[i] = "listen:bubble:ready"
    /\ (bubbleWin => readyListener # "none")
    /\ (initPc # "notCalled" => Len(callOrder) = 2)

\* init() was called and the renderer's bubble:ready arrived before tauri://created
C5_Witness == initPc = "awaitCreated" /\ readyResolved /\ Len(callOrder) = 2

\* ---- C6 -------------------------------------------------------------------
\* C6: when bubble:ready does not arrive, the race started at tauri://created is
\* decided by the timer: init() rejects with the timeout error after READY_TIMEOUT,
\* stays rejected, and the ready listener's unsubscribe was called exactly once.
C6_ReadyTimeoutRejects ==
    /\ [](initPc = "rejectedTimeout"
            => /\ initTimeoutAfter = READY_TIMEOUT
               /\ READY_TIMEOUT = 10000
               /\ ~readyResolved
               /\ readyTimer = "fired"
               /\ readyUnsubCalls = 1
               /\ readyListener = "released"
               /\ ~moveListening /\ ~dismissListening)
    /\ [](initTimeoutAfter # 0 => initPc = "rejectedTimeout")
    /\ [][initPc = "rejectedTimeout" => initPc' = "rejectedTimeout"]_vars
    /\ ((initPc = "awaitReady") ~> (readyResolved \/ initPc = "rejectedTimeout"))

\* init() was rejected by the ready timeout
C6_Witness == initPc = "rejectedTimeout" /\ ~readyResolved /\ readyUnsubCalls = 1

\* ---- C7 -------------------------------------------------------------------
InitSettled == initPc \in {"resolved", "rejectedCreate", "rejectedTimeout"}

\* C7: once init() has settled (resolved, rejected by tauri://error, or rejected by the
\* ready timeout) the bubble:ready listener is released, its unsubscribe called once.
C7_ReadyListenerReleased ==
    InitSettled => readyListener = "released" /\ readyUnsubCalls = 1

\* ---- C8 -------------------------------------------------------------------
\* C8: on tauri://error init() rejects at once, whether or not bubble:ready has
\* arrived: the ready race is never started (no READY_TIMEOUT timer), init() stays
\* rejected, and neither onMoved nor the bubble:dismissed listener is registered.
C8_CreationFailureRejects ==
    /\ [](initPc = "rejectedCreate"
            => /\ readyTimer = "none"
               /\ initTimeoutAfter = 0
               /\ ~moveListening /\ ~dismissListening
               /\ ~moveUnlisten /\ ~dismissUnlisten)
    /\ [][(initPc = "awaitCreated" /\ HostError) => initPc' = "rejectedCreate"]_vars
    /\ [][initPc = "rejectedCreate" => initPc' = "rejectedCreate"]_vars

\* init() was rejected by tauri://error while bubble:ready had not arrived
C8_Witness == initPc = "rejectedCreate" /\ ~readyResolved /\ readyTimer = "none"

\* ---- C9 -------------------------------------------------------------------
QueueState == <<queue, playing, played, mockPending>>
Max(a, b) == IF a >= b THEN a ELSE b

\* the push put the entry on the wait list or handed it to the play callback
Accepted(q) ==
    \/ queue' = Append(queue, q) /\ played' = played
    \/ queue' = <<q>> \o queue /\ played' = played
    \/ Len(played') = Len(played) + 1 /\ played'[Len(played')] = q

\* C9: push() discards a Low message (queue, playing flag and callback calls unchanged)
\* exactly when the wait list already holds MAX_QUEUE_SIZE entries or more; Normal and
\* High messages are accepted at every wait-list length; a Low push never grows the
\* wait list beyond MAX_QUEUE_SIZE.
C9_LowDroppedWhenFull ==
    [][\A msg \in Messages(pushCount + 1) :
          QPush(msg) =>
            LET q == Queued(msg)
            IN /\ (q.priority = "low" /\ Len(queue) >= MAX_QUEUE_SIZE)
                     => UNCHANGED QueueState
               /\ (q.priority = "low" /\ Len(queue) < MAX_QUEUE_SIZE) => Accepted(q)
               /\ q.priority \in {"normal", "high"} => Accepted(q)
               /\ q.priority = "low" => Len(queue') <= Max(Len(queue), MAX_QUEUE_SIZE)]_vars

\* a Low message was accepted while there was room and a later Low message was
\* discarded at a full wait list
C9_Witness ==
    /\ dropped # {}
    /\ Len(queue) = MAX_QUEUE_SIZE
    /\ \E i \in 1..Len(queue) : queue[i].priority = "low"

\* ---- C10 ------------------------------------------------------------------
\* n pushes were made on the fresh queue, all Normal, and the pending play callback
\* of the first one has neither completed nor failed
OnlyNormalPushed(n) ==
    /\ handler = "mock"
    /\ pushCount = n
    /\ drainCalls = 0
    /\ dropped = {}
    /\ Len(played) + Len(queue) = n
    /\ \A i \in 1..Len(played) : played[i].priority = "normal"
    /\ \A i \in 1..Len(queue) : queue[i].priority = "normal"

\* C10 as stated: after five Normal pushes on an empty idle queue the wait list is
\* full, so a sixth push of priority Low is dropped.
C10_SixthLowDropped ==
    [][\A msg \in Messages(pushCount + 1) :
          (OnlyNormalPushed(5) /\ msg.priority = "low" /\ QPush(msg))
              => UNCHANGED QueueState]_vars

\* C10 amended: the first Normal push is handed to the play callback; the next five
\* fill the wait list; after these six pushes a Low push is dropped while a Normal
\* push is kept (6 waiting plus 1 playing). After five pushes a Low push is kept.
C10_SeventhLowDropped ==
    /\ [](\A n \in 1..MaxPushQ :
            OnlyNormalPushed(n) => Len(queue) = n - 1 /\ Len(played) = 1 /\ playing)
    /\ [][\A msg \in Messages(pushCount + 1) :
            (OnlyNormalPushed(MAX_QUEUE_SIZE + 1) /\ QPush(msg)) =>
               /\ Len(queue) = MAX_QUEUE_SIZE
               /\ msg.priority = "low" => UNCHANGED QueueState
               /\ msg.priority = Undefined
                     => /\ queue' = Append(queue, Queued(msg))
                        /\ Len(queue') = MAX_QUEUE_SIZE + 1
                        /\ playing' /\ played' = played]_vars
    /\ [][\A msg \in Messages(pushCount + 1) :
            (OnlyNormalPushed(MAX_QUEUE_SIZE) /\ msg.priority = "low" /\ QPush(msg))
                => queue' = Append(queue, Queued(msg))]_vars

\* six Normal pushes, then a Low push that was dropped
C10_Witness ==
    /\ handler = "mock"
    /\ pushCount = MAX_QUEUE_SIZE + 2
    /\ drainCalls = 0
    /\ dropped = {MAX_QUEUE_SIZE + 2}
    /\ Len(played) = 1
    /\ Len(queue) = MAX_QUEUE_SIZE
    /\ \A i \in 1..Len(queue) : queue[i].priority = "normal"

\* ---- C11 ------------------------------------------------------------------
Entries(q) == {q[i] : i \in 1..Len(q)}

\* m is an entry of pool of highest priority and, among those, the one pushed first
\* (texts number the pushes)
Selects(pool, m) ==
    /\ m \in pool
    /\ \A e \in pool :
          \/ PRIORITY_WEIGHT(e.priority) < PRIORITY_WEIGHT(m.priority)
          \/ PRIORITY_WEIGHT(e.priority) = PRIORITY_WEIGHT(m.priority) /\ e.text >= m.text

\* C11: when the queue picks its next entry, after done(), after a rejected callback
\* or on a push while idle, the entry handed to the play callback is the waiting entry
\* of highest priority, the earliest pushed among equals, and it leaves the wait list;
\* done() with a non-empty wait list always picks one.
C11_HighestPriorityFirst ==
    /\ [][((QDone \/ QReject) /\ queue # <<>>)
            => /\ played' = Append(played, played'[Len(played')])
               /\ Selects(Entries(queue), played'[Len(played')])
               /\ Entries(queue') = Entries(queue) \ {played'[Len(played')]}
               /\ Len(queue') = Len(queue) - 1]_vars
    /\ [][\A msg \in Messages(pushCount + 1) :
            (~playing /\ QPush(msg))
               => /\ played' = Append(played, played'[Len(played')])
                  /\ Selects(Entries(queue) \cup {Queued(msg)}, played'[Len(played')])
                  /\ Entries(queue') = (Entries(queue) \cup {Queued(msg)})
                                           \ {played'[Len(played')]}]_vars

\* done() picked a Normal entry ahead of a Low entry that had been pushed before it,
\* and later the Low entry
C11_Witness ==
    /\ handler = "mock"
    /\ \E i, j \in 1..Len(played) :
          /\ i < j
          /\ played[i].priority = "normal" /\ played[j].priority = "low"
          /\ played[i].text > played[j].text

\* ---- C12 ------------------------------------------------------------------
\* the promise of displayMessage call t rejects in this step
Rejects(t) ==
    \/ t.pc = "show" /\ ShowSettled(t, FALSE, TRUE)
    \/ t.pc = "emit" /\ ~t.ok /\ EmitSettled(t)

\* the session of the current message can still end: its displayMessage call is
\* running or its fallback timer is armed
CanEnd == (\E t \in tasks : t.id = currentMessageId) \/ currentMessageId \in timers

\* C12: when the play callback rejects, the queue clears the playing flag and, if an
\* entry waits, starts the best one at once as a new session; with an empty wait list
\* it goes idle. The failure stays inside the queue (say() and the other calls change
\* nothing else), and whenever every played entry got a session, a queue that is
\* playing has a session that can end.
C12_RejectionAdvances ==
    /\ [][\A t \in tasks : Rejects(t) =>
            /\ t \notin tasks'
            /\ IF queue = <<>>
               THEN ~playing' /\ played' = played /\ messageSeq' = messageSeq
               ELSE /\ playing'
                    /\ played' = Append(played, played'[Len(played')])
                    /\ Selects(Entries(queue), played'[Len(played')])
                    /\ Len(queue') = Len(queue) - 1
                    /\ messageSeq' = messageSeq + 1
                    /\ currentMessageId' = messageSeq'
                    /\ \E u \in tasks' : u.id = currentMessageId' /\ u.pc = "show"
                                         /\ u.msg = played'[Len(played')]]_vars
    /\ []((playing /\ Len(played) = messageSeq) => CanEnd)

\* a displayMessage call rejected while an entry was waiting, and that entry is now
\* the current session
C12_Witness ==
    /\ faults > 0
    /\ Len(played) = 2
    /\ played[2].priority = "normal"
    /\ messageSeq = 2
    /\ currentMessageId = 2
    /\ 1 \notin ShownIds
    /\ doneLog = <<>>
    /\ \E u \in tasks : u.id = 2

\* ---- C13 ------------------------------------------------------------------
\* Teardown of a manager in service: init() has resolved, messages are said and
\* displayed, and dispose() is called, possibly twice (shutdown paths can overlap).
NextTeardown ==
    \/ \E msg \in Messages(pushCount + 1) : Say(msg)
    \/ Steady
    \/ disposeCalls < MaxTeardown /\ DisposeCall
    \/ \E ok \in BOOLEAN : CloseSettled(ok)

SpecTeardown == InitIdle /\ [][NextTeardown]_vars

\* C13: however often dispose() is called, the surface sees one close attempt and
\* each unsubscribe function (onMoved, bubble:dismissed) is called once.
C13_DisposeIdempotent ==
    disposeCalls >= 1 => closeCalls = 1 /\ moveUnsubCalls = 1 /\ dismissUnsubCalls = 1

\* ---- C14 ------------------------------------------------------------------
\* what the secondary surface is asked to do: displayMessage calls in progress
\* (reposition, show, emitTo), ids minted, bubble:show instructions sent
SurfaceUse == <<tasks, messageSeq, currentMessageId, shows, surfaceVisible, timers, hideTimer>>

\* C14: a say() on a manager whose init() was never called, or on which dispose() was
\* called, is ignored: it starts no displayMessage work on the surface and no
\* bubble:show follows from it.
C14_SayIgnored ==
    [][\A msg \in Messages(pushCount + 1) :
          ((initPc = "notCalled" \/ disposeCalls > 0) /\ Say(msg))
              => UNCHANGED SurfaceUse]_vars

\* ---- C15 ------------------------------------------------------------------
\* sessions whose displayMessage call had started when dispose() was last called
BeforeDispose(id) == disposeCalls > 0 /\ id # NoId /\ id <= disposedSeq

\* dispose() cancels the timer it holds and releases both subscriptions in its
\* synchronous part, the step that also issues close()
DisposeReleasesFirst ==
    [][DisposeCall => /\ hideTimer' = NoTimer /\ hideTimer \notin timers'
                      /\ ~moveListening' /\ ~dismissListening'
                      /\ currentMessageId' = NoId /\ queue' = <<>>
                      /\ closePending' >= closePending]_vars

\* queue.done() is not called for a session that dispose() tore down
NoDoneAfterDispose ==
    [][\A i \in 1..Len(doneLog') :
          (i > Len(doneLog) /\ disposeCalls > 0) => doneLog'[i].id > disposedSeq]_vars

\* C15: dispose() cancels the fallback timer and releases the subscriptions before the
\* close attempt, and afterwards nothing acts for the sessions it tore down: none of
\* their timers is armed, no bubble:show is sent for them, queue.done() is not called
\* for them, also when their displayMessage call was in progress at dispose().
C15_NoStaleCallback ==
    /\ DisposeReleasesFirst
    /\ NoDoneAfterDispose
    /\ [](\A id \in timers : ~BeforeDispose(id))
    /\ [][\A t \in tasks :
            (BeforeDispose(t.id) /\ \E showOk, emitOk \in BOOLEAN : ShowSettled(t, showOk, emitOk))
                => shows' = shows /\ surfaceVisible' = surfaceVisible]_vars

NextBusy ==
    \/ \E msg \in Messages(pushCount + 1) : pushCount < MaxBusy /\ SayCall(msg)
    \/ Steady

SpecBusy == InitIdle /\ [][NextBusy]_vars

\* a session is in flight: a message id is current and its session has neither ended
\* (acknowledgment, timer) nor been abandoned (its displayMessage call rejected)
InFlight == currentMessageId # NoId /\ CanEnd

\* this step ends the current session, or abandons it because its own callback rejected
EndsCurrent ==
    \/ Dismissed(currentMessageId)
    \/ TimerFire(currentMessageId)
    \/ \E t \in tasks : t.id = currentMessageId /\ Rejects(t)

\* C17: a new session (callback invoked, id minted) starts while another is in flight
\* only in the step of a High push; a Normal or Low entry is started only when no
\* session is in flight or in the very step that ends the session in flight.
C17_OneSessionInFlight ==
    [][(messageSeq' # messageSeq /\ InFlight)
          => \/ \E msg \in Messages(pushCount + 1) : msg.priority = "high" /\ SayCall(msg)
             \/ EndsCurrent]_vars

\* ---- C18 ------------------------------------------------------------------
\* C18: whenever the manager sends a bubble:show (before any teardown), its
\* bubble:dismissed listener is already registered, however say() interleaves with
\* init().
C18_DismissedListenerBeforeShow ==
    [][(shows' # shows /\ disposeCalls = 0) => dismissListening]_vars

\* ---- the renderer of the bubble window (bubble-entry.ts) ---------------------
RendererFrame == UNCHANGED <<qvars, mvars, ivars, hvars, ovars, dvars, avars>>

\* the bubble:show listener: showBubble(text, duration, messageId). clearTimers()
\* cancels the typewriter, the hide timer and a pending fade-out; the new message
\* becomes current and the typewriter interval starts. Ids arrive as the manager
\* mints them: each show carries a new one.
ReceiveShow(len) ==
    /\ rShows < MaxShows
    /\ rShows' = rShows + 1
    /\ rCurrentMessageId' = rShows + 1
    /\ rTypewriter' = TRUE
    /\ rIdx' = 0
    /\ rLen' = len
    /\ rHideTimer' = FALSE
    /\ rFadeout' = FALSE
    /\ rFadeoutId' = NoId
    /\ UNCHANGED <<rHides, rEmitted>>
    /\ RendererFrame

\* hideBubble(): the id is captured, clearTimers(), the fade-out timer is armed
HideBubble ==
    /\ rFadeoutId' = rCurrentMessageId
    /\ rTypewriter' = FALSE
    /\ rHideTimer' = FALSE
    /\ rFadeout' = TRUE

\* a typewriter interval tick: one more character, or, the text being complete, the
\* interval is cleared and the hide timer armed with the message's duration
TypewriterTick ==
    /\ rTypewriter
    /\ IF rIdx < rLen
       THEN rIdx' = rIdx + 1 /\ UNCHANGED <<rTypewriter, rHideTimer>>
       ELSE rTypewriter' = FALSE /\ rHideTimer' = TRUE /\ UNCHANGED rIdx
    /\ UNCHANGED <<rLen, rFadeout, rFadeoutId, rCurrentMessageId, rShows, rHides, rEmitted>>
    /\ RendererFrame

\* the hide timer expires: hideBubble()
HideTimerFire ==
    /\ rHideTimer
    /\ HideBubble
    /\ UNCHANGED <<rIdx, rLen, rCurrentMessageId, rShows, rHides, rEmitted>>
    /\ RendererFrame

\* the bubble:hide listener: hideBubble()
ReceiveHide ==
    /\ rHides < MaxHides
    /\ rHides' = rHides + 1
    /\ HideBubble
    /\ UNCHANGED <<rIdx, rLen, rCurrentMessageId, rShows, rEmitted>>
    /\ RendererFrame

\* a fade-out callback that hides the bubble without reporting it
FadeoutFireSilent ==
    /\ rFadeout
    /\ rFadeout' = FALSE
    /\ UNCHANGED <<rTypewriter, rIdx, rLen, rHideTimer, rFadeoutId, rCurrentMessageId,
                   rShows, rHides, rEmitted>>
    /\ RendererFrame

\* the fade-out timer (350 ms) expires: the bubble is hidden and
\* emit('bubble:dismissed', { messageId: dismissMessageId })
FadeoutFire ==
    /\ rFadeout
    /\ rFadeout' = FALSE
    /\ rEmitted' = Append(rEmitted, rFadeoutId)
    /\ UNCHANGED <<rTypewriter, rIdx, rLen, rHideTimer, rFadeoutId, rCurrentMessageId,
                   rShows, rHides>>
    /\ RendererFrame

NextRenderer ==
    \/ \E len \in 0..MaxChars : ReceiveShow(len)
    \/ ReceiveHide
    \/ TypewriterTick
    \/ HideTimerFire
    \/ FadeoutFire

\* the renderer alone; the browser runs armed timers
SpecRenderer ==
    /\ Init
    /\ [][NextRenderer]_vars
    /\ WF_vars(TypewriterTick)
    /\ WF_vars(HideTimerFire)
    /\ WF_vars(FadeoutFire)

\* ---- C19 ------------------------------------------------------------------
EmittedIds == {rEmitted[i] : i \in 1..Len(rEmitted)}
TimesEmitted(id) == Cardinality({i \in 1..Len(rEmitted) : rEmitted[i] = id})

\* C19 as stated: every bubble:show received is eventually answered by a
\* bubble:dismissed carrying its messageId.
C19_EveryShowDismissed ==
    \A id \in 1..MaxShows : (rShows >= id) ~> (id \in EmittedIds)

\* C19 amended: a bubble:show that is not followed by another bubble:show before its
\* fade-out completes is eventually answered by a bubble:dismissed with its messageId;
\* every bubble:dismissed carries the id of the message current at that moment, so a
\* show superseded before its fade-out completed is never answered; and without
\* bubble:hide events no messageId is reported twice.
C19_LatestShowDismissed ==
    /\ \A id \in 1..MaxShows : (rShows >= id) ~> (id \in EmittedIds \/ rShows > id)
    /\ [][FadeoutFire => /\ rEmitted' = Append(rEmitted, rCurrentMessageId)
                         /\ rCurrentMessageId = rShows]_vars
    /\ [](\A id \in EmittedIds : id <= rShows)
    /\ [](rHides = 0 => \A id \in 1..MaxShows : TimesEmitted(id) <= 1)
    /\ [](rHides = 0 => NoId \notin EmittedIds)

\* the first show was superseded before its fade-out completed and got no answer;
\* the second and third were each answered once
C19_Witness ==
    /\ rShows = 3
    /\ rHides = 0
    /\ rEmitted = <<2, 3>>

\* ---- C20 ------------------------------------------------------------------
\* C20: clear() empties the wait list and resets the playing flag without invoking
\* the play callback; every entry handed to the callback after the latest clear() was
\* pushed after it, and so was every entry that waits.
C20_ClearDiscards ==
    /\ [][QClear => /\ queue' = <<>>
                    /\ ~playing'
                    /\ played' = played
                    /\ mockPending' = mockPending]_vars
    /\ [](\A i \in 1..Len(played) : i > cleared.played => played[i].text > cleared.pushes)
    /\ [](\A i \in 1..Len(queue) : queue[i].text > cleared.pushes)

\* clear() discarded a waiting entry, which was never played, and an entry pushed
\* later has been handed to the callback
C20_Witness ==
    /\ handler = "mock"
    /\ Len(played) > cleared.played
    /\ \E k \in 1..cleared.pushes : k \notin PlayedTexts \cup dropped \cup WaitingTexts

\* ---- SystemMonitor (features/system-monitor.ts) ------------------------------
\* The monitor is driven as its unit tests drive it: a storage whose preferences
\* resolve, a timer runtime that hands out fresh handles, and a bubble whose say()
\* is only counted.
MonitorFrame == UNCHANGED <<qvars, mvars, ivars, hvars, ovars, dvars, rvars, lvars, xvars, signals, placed, race>>

\* the fields stop() acts on
Mon == [delayTimer |-> delayTimer, timer |-> timer, timeouts |-> timeouts,
        intervals |-> intervals]

\* stop(): clearTimeout(this.delayTimer), clearInterval(this.timer), both fields null
Stop(m) ==
    [m EXCEPT !.timeouts = IF m.delayTimer # NoTimer THEN @ \ {m.delayTimer} ELSE @,
              !.delayTimer = NoTimer,
              !.intervals = IF m.timer # NoTimer THEN @ \ {m.timer} ELSE @,
              !.timer = NoTimer]

AssignMon(m) ==
    /\ delayTimer' = m.delayTimer
    /\ timer' = m.timer
    /\ timeouts' = m.timeouts
    /\ intervals' = m.intervals

\* start() up to await this.storage.getPreferences(): this.stop() runs first
MonitorStart ==
    /\ startCalls < MaxStart
    /\ startCalls' = startCalls + 1
    /\ AssignMon(Stop(Mon))
    /\ starting' = starting + 1
    /\ stoppedSince' = FALSE
    /\ duringAwait' = (duringAwait \/ starting > 0)
    /\ UNCHANGED <<handleSeq, invoking, alerted, polls, alerts, stopCalls>>
    /\ MonitorFrame

\* getPreferences() has resolved: with systemMonitorEnabled the first-check timeout
\* is armed and its handle stored in this.delayTimer; otherwise start() returns
PrefsSettled(enabled) ==
    /\ starting > 0
    /\ starting' = starting - 1
    /\ IF enabled
       THEN /\ handleSeq' = handleSeq + 1
            /\ delayTimer' = handleSeq + 1
            /\ timeouts' = timeouts \cup {handleSeq + 1}
       ELSE UNCHANGED <<handleSeq, delayTimer, timeouts>>
    /\ UNCHANGED <<timer, intervals, invoking, alerted, polls, alerts, startCalls,
                   stopCalls, stoppedSince, duringAwait>>
    /\ MonitorFrame

\* stop(), called by the owner of the monitor
MonitorStopCall ==
    /\ stopCalls' = stopCalls + 1
    /\ AssignMon(Stop(Mon))
    /\ stoppedSince' = TRUE
    /\ duringAwait' = (duringAwait \/ starting > 0)
    /\ UNCHANGED <<handleSeq, starting, invoking, alerted, polls, alerts, startCalls>>

MonitorStop == stopCalls < MaxStop /\ MonitorStopCall /\ MonitorFrame

\* a first-check timeout expires: this.delayTimer = null; this.poll();
\* this.timer = window.setInterval(() => this.poll(), POLL_INTERVAL)
DelayFire(h) ==
    /\ h \in timeouts
    /\ polls < MaxPolls
    /\ timeouts' = timeouts \ {h}
    /\ delayTimer' = NoTimer
    /\ polls' = polls + 1
    /\ invoking' = invoking + 1
    /\ handleSeq' = handleSeq + 1
    /\ timer' = handleSeq + 1
    /\ intervals' = intervals \cup {handleSeq + 1}
    /\ UNCHANGED <<starting, alerted, alerts, startCalls, stopCalls, stoppedSince, duringAwait>>
    /\ MonitorFrame

\* a polling interval ticks: this.poll()
IntervalFire(h) ==
    /\ h \in intervals
    /\ polls < MaxPolls
    /\ polls' = polls + 1
    /\ invoking' = invoking + 1
    /\ UNCHANGED <<delayTimer, timer, timeouts, intervals, handleSeq, starting, alerted,
                   alerts, startCalls, stopCalls, stoppedSince, duringAwait>>
    /\ MonitorFrame

\* what a get_system_stats invocation can yield: a rejection, or statistics that are
\* below both thresholds, above the CPU threshold, or above the memory threshold only
StatsOutcomes == {"failed", "calm", "cpu", "memory"}

\* invoke('get_system_stats') has settled: evaluate(stats) alerts when a threshold is
\* exceeded and ALERT_COOLDOWN has elapsed since lastAlertAt (always so before the
\* first alert); a rejection is caught and logged
StatsSettled(outcome, cooled) ==
    /\ invoking > 0
    /\ cooled \/ alerted
    /\ invoking' = invoking - 1
    /\ IF outcome \in {"cpu", "memory"} /\ cooled
       THEN alerts' = alerts + 1 /\ alerted' = TRUE
       ELSE UNCHANGED <<alerts, alerted>>
    /\ UNCHANGED <<delayTimer, timer, timeouts, intervals, handleSeq, starting, polls,
                   startCalls, stopCalls, stoppedSince, duringAwait>>
    /\ MonitorFrame

NextMonitor ==
    \/ MonitorStart
    \/ \E enabled \in BOOLEAN : PrefsSettled(enabled)
    \/ MonitorStop
    \/ \E h \in timeouts : DelayFire(h)
    \/ \E h \in intervals : IntervalFire(h)
    \/ \E outcome \in StatsOutcomes, cooled \in BOOLEAN : StatsSettled(outcome, cooled)

SpecMonitor == Init /\ [][NextMonitor]_vars

\* timer chains alive in the event loop: first-check timeouts and polling intervals
Chains == timeouts \cup intervals

\* as long as no start() or stop() is called while a start() is suspended, a poll
\* never follows a stop() that no start() has followed
SettledStopSilences == [][polls' # polls => (duringAwait \/ ~stoppedSince)]_vars

\* as long as no start() or stop() is called while a start() is suspended, at most
\* one timer chain is alive
SettledStartsOneChain == ~duringAwait => Cardinality(Chains) <= 1

\* ---- C23 ------------------------------------------------------------------
\* C23: after stop() has been called, no get_system_stats invocation occurs until
\* start() is called again, whenever stop() was called (during the first-check
\* delay, after the interval was created, or while start() awaits the preferences).
C23_NoPollAfterStop == [][polls' # polls => ~stoppedSince]_vars

\* ---- C24 ------------------------------------------------------------------
\* C24: after any sequence of start() calls, awaited one after another or
\* overlapping, at most one first-check timeout or polling interval is active.
C24_OneTimerChain == Cardinality(Chains) <= 1

\* ---- initLifecycle: gracefulShutdown() ---------------------------------------
\* a step of gracefulShutdown() that leaves the bubble subsystem and the monitor alone
\* what gracefulShutdown() itself never touches
StageFrame == UNCHANGED <<qvars, mvars, ivars, hvars, ovars, dvars, rvars, svars, signals, placed, race>>

ShutdownFrame == StageFrame /\ UNCHANGED xvars

\* the number of times a call occurs in a log
Count(log, call) == Cardinality({i \in 1..Len(log) : log[i] = call})

\* a log extended by the calls a step makes
Logged(calls) == shutdownLog \o calls

\* a stage whose failure ends gracefulShutdown(): one try block around all stages
AfterFailureAborts(next) == "done"

\* where gracefulShutdown() continues when a stage has thrown: every stage has its
\* own try / catch, so with the stage that follows
AfterFailure(next) == next

\* a gracefulShutdown() without the started flag: a call made once the previous
\* one has finished runs all the stages again
GracefulShutdownRestarts ==
    /\ shutdownCalls < MaxShutdown
    /\ shutdownCalls' = shutdownCalls + 1
    /\ shutdownLog' = Logged(<<"gracefulShutdown">>)
    /\ IF shutdownPc \notin {"notCalled", "done"}
       THEN UNCHANGED <<gracefulShutdownStarted, shutdownPc>>
       ELSE gracefulShutdownStarted' = TRUE /\ shutdownPc' = "position"
    /\ UNCHANGED <<dirtyFlag, shutdownFailed>>
    /\ StageFrame

\* gracefulShutdown(): a call made after the flag was set returns at once; the
\* first call sets the flag and is suspended at await mainWindow.outerPosition()
GracefulShutdownCall ==
    /\ shutdownCalls < MaxShutdown
    /\ shutdownCalls' = shutdownCalls + 1
    /\ shutdownLog' = Logged(<<"gracefulShutdown">>)
    /\ IF gracefulShutdownStarted
       THEN UNCHANGED <<gracefulShutdownStarted, shutdownPc>>
       ELSE gracefulShutdownStarted' = TRUE /\ shutdownPc' = "position"
    /\ UNCHANGED <<dirtyFlag, shutdownFailed>>
    /\ StageFrame

\* gracefulShutdown() called on its own
GracefulShutdown == GracefulShutdownCall /\ UNCHANGED xvars

\* outerPosition() has settled: the position is stored, or the rejection is caught;
\* then clearInterval(autoSaveTimer) and the call waits for the unlisten functions
PositionSettled(ok) ==
    /\ shutdownPc = "position"
    /\ shutdownLog' = IF ok THEN Logged(<<"storage.setWindowPosition">>) ELSE shutdownLog
    /\ shutdownFailed' = IF ok THEN shutdownFailed ELSE shutdownFailed \cup {"position"}
    /\ shutdownPc' = IF ok THEN "listeners" ELSE AfterFailure("listeners")
    /\ UNCHANGED <<gracefulShutdownStarted, dirtyFlag, shutdownCalls>>
    /\ ShutdownFrame

\* the unlisten promises have settled and the unlisten functions and
\* cleanupInteraction() have run, or one of them threw; then idleCare.stop(),
\* hourlyChime.stop() and the call waits for pomodoro.stop()
ListenersSettled(ok) ==
    /\ shutdownPc = "listeners"
    /\ shutdownLog' = IF ok THEN Logged(<<"cleanupInteraction">>) ELSE shutdownLog
    /\ shutdownFailed' = IF ok THEN shutdownFailed ELSE shutdownFailed \cup {"listeners"}
    /\ shutdownPc' = IF ok THEN "modules" ELSE AfterFailure("modules")
    /\ UNCHANGED <<gracefulShutdownStarted, dirtyFlag, shutdownCalls>>
    /\ ShutdownFrame

\* the feature modules have been stopped (systemMonitor.stop() among them), or a
\* stop() before systemMonitor.stop() threw; then memory.save() is called
ModulesSettled(ok) ==
    /\ shutdownPc = "modules"
    /\ IF ok THEN MonitorStopCall ELSE UNCHANGED svars
    /\ shutdownLog' = IF ok THEN Logged(<<"systemMonitor.stop", "memory.save">>)
                      ELSE Logged(<<"memory.save">>)
    /\ shutdownFailed' = IF ok THEN shutdownFailed ELSE shutdownFailed \cup {"modules"}
    /\ shutdownPc' = IF ok THEN "memorySave" ELSE AfterFailure("memorySave")
    /\ UNCHANGED <<gracefulShutdownStarted, dirtyFlag, shutdownCalls>>
    /\ UNCHANGED <<qvars, mvars, ivars, hvars, ovars, dvars, rvars, xvars, signals, placed, race>>

\* the last try block starts: core.bubble.dispose() is called and awaited
BeginCleanup(log) ==
    /\ DisposeBody
    /\ shutdownLog' = log \o <<"bubble.dispose">>
    /\ shutdownPc' = "bubbleDispose"
    /\ UNCHANGED <<gracefulShutdownStarted, dirtyFlag, shutdownCalls, svars, xvars, signals, placed, race>>

\* memory.save() has settled: on success storage.save() is called; a rejection
\* leaves the try block, and the clean-up of the global resources starts
MemorySaveSettled(ok) ==
    /\ shutdownPc = "memorySave"
    /\ IF ok
       THEN /\ shutdownLog' = Logged(<<"storage.save">>)
            /\ shutdownPc' = "storageSave"
            /\ UNCHANGED shutdownFailed
            /\ UNCHANGED <<gracefulShutdownStarted, dirtyFlag, shutdownCalls>>
            /\ ShutdownFrame
       ELSE /\ shutdownFailed' = shutdownFailed \cup {"memory.save"}
            /\ BeginCleanup(shutdownLog)

\* storage.save() has settled, either way: the clean-up of the global resources starts
StorageSaveSettled(ok) ==
    /\ shutdownPc = "storageSave"
    /\ shutdownFailed' = IF ok THEN shutdownFailed ELSE shutdownFailed \cup {"storage.save"}
    /\ BeginCleanup(shutdownLog)

\* bubble.dispose() has resolved: bus.dispose(), then unregisterAll() is awaited
BubbleDisposeSettled ==
    /\ shutdownPc = "bubbleDispose"
    /\ closePending = 0
    /\ shutdownLog' = Logged(<<"bus.dispose", "unregisterAll">>)
    /\ shutdownPc' = "unregisterAll"
    /\ UNCHANGED <<gracefulShutdownStarted, dirtyFlag, shutdownFailed, shutdownCalls>>
    /\ ShutdownFrame

\* unregisterAll() has settled, either way: clearDirtyShutdown() and the call returns
UnregisterSettled(ok) ==
    /\ shutdownPc = "unregisterAll"
    /\ shutdownFailed' = IF ok THEN shutdownFailed ELSE shutdownFailed \cup {"unregisterAll"}
    /\ dirtyFlag' = FALSE
    /\ shutdownPc' = "done"
    /\ UNCHANGED <<gracefulShutdownStarted, shutdownLog, shutdownCalls>>
    /\ ShutdownFrame

\* beforeunload: markDirtyOnBeforeUnload(gracefulShutdownStarted)
BeforeUnload ==
    /\ dirtyFlag' = (dirtyFlag \/ ~gracefulShutdownStarted)
    /\ UNCHANGED <<gracefulShutdownStarted, shutdownPc, shutdownLog, shutdownFailed,
                   shutdownCalls>>
    /\ ShutdownFrame

\* the application after start-up (bubble.init() resolved), shutting down
NextShutdown ==
    \/ GracefulShutdown
    \/ \E ok \in BOOLEAN : PositionSettled(ok)
    \/ \E ok \in BOOLEAN : ListenersSettled(ok)
    \/ \E ok \in BOOLEAN : ModulesSettled(ok)
    \/ \E ok \in BOOLEAN : MemorySaveSettled(ok)
    \/ \E ok \in BOOLEAN : StorageSaveSettled(ok)
    \/ \E ok \in BOOLEAN : CloseSettled(ok)
    \/ BubbleDisposeSettled
    \/ \E ok \in BOOLEAN : UnregisterSettled(ok)
    \/ BeforeUnload

SpecShutdown == InitIdle /\ [][NextShutdown]_vars

\* ---- C21 ------------------------------------------------------------------
SaveCalls == {"memory.save", "storage.save", "bubble.dispose"}

\* C21 as stated: however many times gracefulShutdown() is called, sequentially or
\* while an earlier call is running, memory.save(), storage.save() and
\* bubble.dispose() are never executed twice, and a finished shutdown has executed
\* each of them exactly once.
C21_ShutdownIdempotent ==
    /\ \A call \in SaveCalls : Count(shutdownLog, call) <= 1
    /\ shutdownPc = "done" => \A call \in SaveCalls : Count(shutdownLog, call) = 1

\* C21, amended: however many times gracefulShutdown() is called, none of the three
\* calls is ever made twice, and a finished shutdown has made memory.save() and
\* bubble.dispose() exactly once, and storage.save() exactly once unless
\* memory.save() rejected, in which case storage.save() is not made at all.
C21_AtMostOnceAndOnceUnlessSaveFails ==
    /\ \A call \in SaveCalls : Count(shutdownLog, call) <= 1
    /\ shutdownPc = "done" =>
          /\ Count(shutdownLog, "memory.save") = 1
          /\ Count(shutdownLog, "bubble.dispose") = 1
          /\ Count(shutdownLog, "storage.save") =
                IF "memory.save" \in shutdownFailed THEN 0 ELSE 1

\* three calls, the second while the first was suspended at await memory.save(), the
\* third after the shutdown had finished: everything was executed once
C21_Witness ==
    /\ shutdownPc = "done"
    /\ shutdownCalls = 3
    /\ \E i, j \in 1..Len(shutdownLog) :
          /\ i < j
          /\ shutdownLog[i] = "memory.save"
          /\ shutdownLog[i + 1] = "gracefulShutdown"
          /\ shutdownLog[j] = "unregisterAll"
          /\ j < Len(shutdownLog)
          /\ shutdownLog[Len(shutdownLog)] = "gracefulShutdown"
    /\ \A call \in SaveCalls : Count(shutdownLog, call) = 1

\* ---- C22 ------------------------------------------------------------------
\* C22: a failure while saving the window position, releasing the listeners or
\* stopping the feature modules does not keep memory.save() and storage.save() from
\* being called (memory.save() is called once the module stage is over, storage.save()
\* once memory.save() has succeeded), and a finished shutdown has cleared the
\* dirty-shutdown flag even when saving failed.
C22_StagesFaultIsolated ==
    /\ shutdownPc \in {"memorySave", "storageSave", "bubbleDispose", "unregisterAll", "done"}
          => Count(shutdownLog, "memory.save") = 1
    /\ (/\ shutdownPc \in {"storageSave", "bubbleDispose", "unregisterAll", "done"}
        /\ "memory.save" \notin shutdownFailed)
          => Count(shutdownLog, "storage.save") = 1
    /\ shutdownPc = "done" => ~dirtyFlag

\* every early stage failed and saving failed, yet both saves were called and the
\* flag that beforeunload had set is cleared
C22_Witness ==
    /\ shutdownPc = "done"
    /\ {"position", "listeners", "modules", "storage.save"} \subseteq shutdownFailed
    /\ Count(shutdownLog, "memory.save") = 1
    /\ Count(shutdownLog, "storage.save") = 1
    /\ ~dirtyFlag

\* ---- C25 ------------------------------------------------------------------
\* start-up observed together with the order in which init() receives its signals
CreatedSignal == HostCreatedBody /\ signals' = Append(signals, "tauri://created")

ReadySignal == BubbleReadyBody /\ signals' = Append(signals, "bubble:ready")

NextInit ==
    \/ InitCall
    \/ CreatedSignal
    \/ HostError
    \/ ReadySignal
    \/ ReadyTimeout
    \/ InitOnMoved
    \/ InitListenDismissed
    \/ \E msg \in Messages(pushCount + 1) : Say(msg)
    \/ Steady

\* the runtime delivers tauri://created or tauri://error, lets the armed timer
\* expire, and settles init()'s two subscriptions
SpecInit ==
    /\ Init
    /\ [][NextInit]_vars
    /\ WF_vars(CreatedSignal \/ HostError)
    /\ WF_vars(ReadyTimeout)
    /\ WF_vars(InitOnMoved)
    /\ WF_vars(InitListenDismissed)

Received(signal) == \E i \in 1..Len(signals) : signals[i] = signal

BothReceived == Received("tauri://created") /\ Received("bubble:ready")

\* C25: once init() has received both the created signal and bubble:ready, in
\* either order, it has left the race without a timeout and goes on to resolve; a
\* bubble:ready received before the created signal is remembered, so that the
\* created signal alone then ends the wait.
C25_IdleAfterBothSignals ==
    /\ [](BothReceived => initPc \in {"awaitOnMoved", "awaitListenDismissed", "resolved"})
    /\ [](Received("bubble:ready") => readyResolved)
    /\ BothReceived ~> (initPc = "resolved")

\* init() has resolved after bubble:ready arrived first
C25_Witness ==
    /\ initPc = "resolved"
    /\ signals = <<"bubble:ready", "tauri://created">>
    /\ initTimeoutAfter = 0

\* ---- displayMessage, with repositionBubble() as a step of its own -----------
RepositionFrame ==
    UNCHANGED <<handler, pushCount, dropped, drainCalls, bubbleWin, moveUnlisten,
                dismissUnlisten, ivars, moveListening, dismissListening, callOrder,
                readyUnsubCalls, dismissedCount, lastDismissed, disposeCalls, closeCalls,
                faults, moveUnsubCalls, dismissUnsubCalls, initTimeoutAfter, dvars, rvars,
                svars, lvars, xvars, signals, race>>

Placed(id) == \E p \in placed : p.id = id

\* a repositionBubble() whose failure escapes to displayMessage and so to the queue
RepositionRaises(t, ok) ==
    /\ t \in tasks
    /\ t.pc = "show"
    /\ ~Placed(t.id)
    /\ placed' = placed \cup {[id |-> t.id, ok |-> ok]}
    /\ IF ok THEN Assign(St) ELSE Assign(HandlerRejected([St EXCEPT !.tasks = @ \ {t}]))
    /\ RepositionFrame

\* await this.repositionBubble() has settled: the geometry was read and setPosition
\* applied (ok), or one of the four host calls failed and the catch block logged it;
\* either way repositionBubble() resolves and displayMessage goes on to show()
Reposition(t, ok) ==
    /\ t \in tasks
    /\ t.pc = "show"
    /\ ~Placed(t.id)
    /\ placed' = placed \cup {[id |-> t.id, ok |-> ok]}
    /\ Assign(St)
    /\ RepositionFrame

\* this.bubbleWin.show() settles after repositionBubble() has
PlacedShowSettled(t, showOk, emitOk) == Placed(t.id) /\ ShowSettled(t, showOk, emitOk)

NextDisplay ==
    \/ \E msg \in Messages(pushCount + 1) : Say(msg)
    \/ \E id \in DismissIds : Dismissed(id)
    \/ \E id \in timers : TimerFire(id)
    \/ \E t \in tasks, ok \in BOOLEAN : Reposition(t, ok)
    \/ \E t \in tasks, showOk \in BOOLEAN, emitOk \in BOOLEAN : PlacedShowSettled(t, showOk, emitOk)
    \/ \E t \in tasks : EmitSettled(t)

SpecDisplay == InitIdle /\ [][NextDisplay]_vars

\* ---- C26 ------------------------------------------------------------------
\* C26: each display first cancels the armed fallback timer and mints the id that
\* becomes current; bubble:show is sent only after the position step of that session
\* and together with the surface being visible; and a fallback timer exists only
\* for a session whose bubble:show has been sent.
C26_DisplayStepOrder ==
    /\ [][messageSeq' # messageSeq =>
            /\ messageSeq' = messageSeq + 1
            /\ currentMessageId' = messageSeq'
            /\ hideTimer' = NoTimer
            /\ hideTimer \notin timers'
            /\ ~Placed(messageSeq')
            /\ messageSeq' \notin ShownIds']_vars
    /\ [][shows' # shows =>
            /\ surfaceVisible'
            /\ Len(shows') = Len(shows) + 1
            /\ Placed(shows'[Len(shows')].messageId)
            /\ shows'[Len(shows')].messageId \notin timers']_vars
    /\ [](\A id \in timers : id \in ShownIds)
    /\ [](hideTimer # NoTimer => hideTimer \in ShownIds)

\* the second session went through all its steps after the first one, whose
\* bubble:show had been sent, was superseded
C26_Witness ==
    /\ currentMessageId = 2
    /\ Placed(1) /\ Placed(2)
    /\ ShownIds = {1, 2}
    /\ surfaceVisible
    /\ hideTimer = 2
    /\ timers = {2}
    /\ tasks = {}
    /\ doneLog = <<>>

\* ---- C28 ------------------------------------------------------------------
\* the part of the state the queue and callers of say() see, and the display path
Raised == <<queue, playing, played, tasks, faults, currentMessageId, doneLog>>

\* C28: a failed geometry read or setPosition changes nothing for the queue or the
\* caller and leaves the display in progress; the display then goes on as after a
\* successful one (the surface is made visible, bubble:show is sent, the timer armed).
C28_GeometryFailureAbsorbed ==
    [][\A t \in tasks : Reposition(t, FALSE) =>
          /\ UNCHANGED Raised
          /\ UNCHANGED <<surfaceVisible, shows, timers, hideTimer>>
          /\ t \in tasks' /\ t.pc = "show"
          /\ [id |-> t.id, ok |-> FALSE] \in placed']_vars

\* a session whose geometry step failed was shown and has its fallback timer armed
C28_Witness ==
    /\ [id |-> 1, ok |-> FALSE] \in placed
    /\ ShownIds = {1}
    /\ surfaceVisible
    /\ currentMessageId = 1
    /\ hideTimer = 1
    /\ timers = {1}
    /\ faults = 0
    /\ playing

\* ---- C27 ------------------------------------------------------------------
\* C27: the bubble:show instructions sent carry pairwise different ids, the current
\* id is always either none or the id minted last, and it only ever changes to none
\* or to an id that has just been minted, so an id that has ended or been superseded
\* is never current again.
C27_IdsNeverReused ==
    /\ [](\A i, j \in 1..Len(shows) : shows[i].messageId = shows[j].messageId => i = j)
    /\ [](currentMessageId \in {NoId, messageSeq})
    /\ [][messageSeq' >= messageSeq]_vars
    /\ [][currentMessageId' # currentMessageId =>
            \/ currentMessageId' = NoId
            \/ currentMessageId' = messageSeq' /\ messageSeq' > messageSeq]_vars

\* session 1 was shown and has ended, session 2 was shown under a different id
C27_Witness ==
    /\ Len(shows) = 2
    /\ shows[1].messageId = 1
    /\ shows[2].messageId = 2
    /\ 1 \in EndedBy("ack") \cup EndedBy("timer")
    /\ currentMessageId = 2

\* ---- C29 ------------------------------------------------------------------
\* a step that starts a new session while another one is current and has not ended
Supersedes == messageSeq' # messageSeq /\ currentMessageId # NoId /\ doneLog' = doneLog

\* C29: a step that supersedes the current session sends nothing to the renderer
\* and does not touch the surface (no bubble:show in that step, the surface stays as
\* it is, the renderer is not acted on), and no step of the manager ever delivers a
\* bubble:hide to the renderer.
C29_NoCancelOnPreemption ==
    /\ [][Supersedes => UNCHANGED <<shows, surfaceVisible, rvars>>]_vars
    /\ [][rHides' = rHides]_vars

\* session 1 is on display (its bubble:show was sent, the surface is visible) and
\* has just been superseded by a High message for which nothing has been sent yet
C29_Witness ==
    /\ currentMessageId = 2
    /\ ShownIds = {1}
    /\ surfaceVisible
    /\ Len(played) = 2
    /\ played[2].priority = "high"
    /\ doneLog = <<>>
    /\ \E t \in tasks : t.id = 2 /\ t.pc = "show"
    /\ rHides = 0

\* ---- one display on a common clock --------------------------------------------
\* Timers are exact: bubble:show is received, and the fallback timer armed, at time 0;
\* a timer fires when the clock reaches its deadline, so the pending timer with the
\* earliest deadline fires next (either of two timers with equal deadlines may go
\* first). The channel takes lag ms to deliver bubble:dismissed to the manager; with
\* lag = 0 it is handled at the instant it is emitted.
RaceFrame == UNCHANGED <<qvars, mvars, ivars, hvars, ovars, dvars, rvars, svars, lvars,
                         xvars, signals, placed>>

\* a fallback delay without the two margins: just the time the renderer needs
FallbackDelayTight(n, d) == n * CHAR_INTERVAL + d + FADEOUT_DELAY

\* totalMs of displayMessage: typewriterMs = text.length * CHAR_INTERVAL + 100,
\* totalMs = typewriterMs + msg.duration + 450
FallbackDelay(n, d) == (n * CHAR_INTERVAL + 100) + d + 450

\* the durations messages carry: multiples of 100 ms up to the bound, and the ones
\* the callers in the repository use
Durations == {100 * k : k \in 0..MaxDur} \cup {DEFAULT_DURATION, 4000, 6000}

\* the channel delays bubble:dismissed can suffer
Lags == {0, 100, 200}

Deadlines(r) == {r.tick, r.hide, r.fade, r.ack, r.fallback} \ {NoDeadline}

\* the timer with this deadline is pending and no pending timer is due earlier
Due(r, deadline) == deadline # NoDeadline /\ \A other \in Deadlines(r) : deadline <= other

\* bubble:show is sent and received: showBubble() starts the typewriter interval, and
\* displayMessage arms the fallback timer
RaceShow(n, d, lag) ==
    /\ race = NoRace
    /\ race' = [NoRace EXCEPT !.n = n, !.d = d, !.lag = lag, !.tick = CHAR_INTERVAL,
                              !.fallback = FallbackDelay(n, d),
                              !.budget = FallbackDelay(n, d)]
    /\ RaceFrame

\* the typewriter interval ticks: one more character and the next tick 40 ms later,
\* or, the text being complete, the interval is cleared and the hide timer armed
RaceTypewriter ==
    /\ Due(race, race.tick)
    /\ race' = IF race.idx < race.n
               THEN [race EXCEPT !.now = race.tick, !.idx = @ + 1,
                                 !.tick = race.tick + CHAR_INTERVAL]
               ELSE [race EXCEPT !.now = race.tick, !.tick = NoDeadline,
                                 !.hide = race.tick + race.d]
    /\ RaceFrame

\* the hide timer expires: hideBubble() arms the fade-out timer
RaceHide ==
    /\ Due(race, race.hide)
    /\ race' = [race EXCEPT !.now = race.hide, !.hide = NoDeadline,
                            !.fade = race.hide + FADEOUT_DELAY]
    /\ RaceFrame

\* the fade-out timer expires: bubble:dismissed is emitted
RaceFadeout ==
    /\ Due(race, race.fade)
    /\ race' = [race EXCEPT !.now = race.fade, !.fade = NoDeadline,
                            !.emittedAt = race.fade,
                            !.ack = race.fade + race.lag]
    /\ RaceFrame

\* bubble:dismissed reaches the manager: onBubbleDismissed ends the session if it
\* is still current, cancelling the fallback timer
RaceAck ==
    /\ Due(race, race.ack)
    /\ race' = [race EXCEPT !.now = race.ack, !.ack = NoDeadline,
                            !.fallback = NoDeadline,
                            !.endedBy = IF @ = "none" THEN "ack" ELSE @]
    /\ RaceFrame

\* the fallback timer expires: onBubbleDismissed(messageId) ends the session
RaceFallback ==
    /\ Due(race, race.fallback)
    /\ race' = [race EXCEPT !.now = race.fallback, !.fallback = NoDeadline,
                            !.endedBy = IF @ = "none" THEN "timer" ELSE @]
    /\ RaceFrame

NextRace ==
    \/ \E n \in 0..MaxLen, d \in Durations, lag \in Lags : RaceShow(n, d, lag)
    \/ RaceTypewriter
    \/ RaceHide
    \/ RaceFadeout
    \/ RaceAck
    \/ RaceFallback

SpecRace == InitIdle /\ [][NextRace]_vars

\* ---- C30 ------------------------------------------------------------------
\* C30: for every text length and duration the fallback delay is 40n + 100 + d + 450,
\* the renderer emits bubble:dismissed 40(n+1) + d + 350 ms after bubble:show, which
\* is strictly earlier, and so, the channel adding no delay, the session is always
\* ended by the acknowledgment and the fallback timer never fires first.
C30_FallbackOutlastsRenderer ==
    /\ race # NoRace => race.budget = 40 * race.n + 100 + race.d + 450
    /\ race.emittedAt # NoDeadline =>
          /\ race.emittedAt = 40 * (race.n + 1) + race.d + 350
          /\ race.emittedAt < race.budget
    /\ race.lag = 0 => race.endedBy # "timer"
    /\ (race.lag = 0 /\ race.fallback # NoDeadline) => race.now < race.fallback

\* the longest text with the shortest duration has been acknowledged in time
C30_Witness ==
    /\ race.n = MaxLen
    /\ race.d = 0
    /\ race.lag = 0
    /\ race.endedBy = "ack"
    /\ race.emittedAt = 40 * (MaxLen + 1) + 350
    /\ race.idx = MaxLen

\* ---- C31 ------------------------------------------------------------------
\* C31: while no message is current (currentMessageId empty), a bubble:dismissed
\* event is a no-op whatever id it carries, the empty id included: queue.done() is
\* not called, the surface is not hidden, and nothing else of the session state
\* (queue, playing flag, timers, ids) changes.
C31_IdleDismissedIsNoop ==
    [][\A id \in DismissIds :
          (currentMessageId = NoId /\ Dismissed(id))
              => /\ doneLog' = doneLog
                 /\ surfaceVisible' = surfaceVisible
                 /\ UNCHANGED SessionState]_vars

\* one session was shown and has ended, the manager is idle, and an event with the
\* empty id was delivered to it: queue.done() was called once only, for the session
C31_Witness ==
    /\ lastDismissed = [id |-> NoId, current |-> NoId]
    /\ currentMessageId = NoId
    /\ Len(doneLog) = 1
    /\ Len(shows) = 1
    /\ ~playing

\* ---- C32 ------------------------------------------------------------------
\* the priorities of the entries that wait
WaitingPriorities == {queue[i].priority : i \in 1..Len(queue)}

\* C32: with a play callback registered, every push of a High message hands exactly
\* that message to the play callback before push returns, whether or not something is
\* playing; so the wait list never holds a High entry.
C32_HighNeverWaits ==
    /\ []("high" \notin WaitingPriorities)
    /\ [][\A msg \in Messages(pushCount + 1) :
            (msg.priority = "high" /\ QPush(msg))
                => /\ played' = Append(played, Queued(msg))
                   /\ playing'
                   /\ Len(queue') = Len(queue)
                   /\ WaitingTexts' = WaitingTexts]_vars

\* the last push was a High one made while another message was playing and two
\* others were waiting: it was handed to the callback, the others still wait
C32_Witness ==
    /\ Len(played) >= 2
    /\ played[Len(played)].priority = "high"
    /\ played[Len(played)].text = pushCount
    /\ played[Len(played) - 1].text < pushCount - 2
    /\ Len(queue) = 2
    /\ mockPending = Len(played)
    /\ drainCalls = 0

\* ---- C33 ------------------------------------------------------------------
\* C33: over any sequence of push, done and clear operations (and callback
\* rejections) every pushed message is handed to the play callback at most once; a
\* message that was handed over, superseded ones included, is never in the wait list
\* again.
C33_PlayedAtMostOnce ==
    /\ \A i, j \in 1..Len(played) : played[i].text = played[j].text => i = j
    /\ PlayedTexts \cap WaitingTexts = {}
    /\ \A i, j \in 1..Len(queue) : queue[i].text = queue[j].text => i = j

\* message 1 was playing when a High push superseded it; after one done() the entry
\* that had waited behind message 1 was started, and the wait list is empty: message 1
\* was handed over once
C33_Witness ==
    /\ Len(played) = 3
    /\ played[1].text = 1
    /\ played[2].priority = "high"
    /\ played[3].priority # "high"
    /\ played[3].text < played[2].text
    /\ drainCalls = 1
    /\ mockPending = 3
    /\ queue = <<>>
    /\ playing

\* ---- C34 ------------------------------------------------------------------
\* C34: in every state where no displayMessage call is in progress, the queue is
\* playing exactly when a message id is current, and exactly then a fallback timer
\* is armed.
C34_QueueAndControllerAgree ==
    tasks = {} =>
        /\ playing <=> currentMessageId # NoId
        /\ currentMessageId # NoId <=> timers # {}

\* ---- C35 ------------------------------------------------------------------
\* a message was handed to displayMessage while no window object existed (say() before
\* init() was called): the call returned at its first line without minting an id
SaidBeforeInit == Len(played) > messageSeq

\* C35: a say() made before init() was called does not stall the pipe: a message
\* pushed after init() has completed is eventually handed to displayMessage (unless
\* dispose() clears the queue first).
C35_SayBeforeInitDoesNotStall ==
    \A k \in 1..MaxSay :
        []((initPc = "resolved" /\ SaidBeforeInit /\ pushCount < k)
              => []((k \in WaitingTexts) => <>(k \in PlayedTexts \/ disposeCalls > 0)))

\* ---- C36 ------------------------------------------------------------------
\* displayMessage call t belongs to a session that a High push has superseded, and the
\* pre-empting session is still current
Superseded(t) ==
    /\ currentMessageId # NoId
    /\ t.id < currentMessageId
    /\ played[currentMessageId].priority = "high"

\* C36: when the play callback of a session superseded by a High pre-emption rejects
\* while the pre-empting session is still current, the queue does not advance: the
\* playing flag stays set, no waiting entry is started and no new id is minted.
C36_SupersededRejectionIsInert ==
    [][\A t \in tasks :
          (Superseded(t) /\ Rejects(t))
              => /\ playing'
                 /\ played' = played
                 /\ queue' = queue
                 /\ messageSeq' = messageSeq
                 /\ currentMessageId' = currentMessageId]_vars

\* ---- C37 ------------------------------------------------------------------
\* C37: when a High push pre-empts while the displayMessage call of the superseded
\* message is suspended at an await, bubble:show instructions are sent in the order
\* their ids were minted, so once the show of the current id is sent it is the most
\* recent one.
C37_ShowsInMintOrder ==
    /\ \A i, j \in 1..Len(shows) : i < j => shows[i].messageId < shows[j].messageId
    /\ (currentMessageId # NoId /\ currentMessageId \in ShownIds)
          => shows[Len(shows)].messageId = currentMessageId

\* ---- C38 ------------------------------------------------------------------
\* C38: at most one fallback timer is armed at any time, an armed fallback timer
\* belongs to the current message id, and it is the one the hideTimer handle refers
\* to (no handle is overwritten while its timer is pending), for every interleaving
\* of displayMessage calls, acknowledgments and timer expiries.
C38_OneTimerOfCurrentSession ==
    /\ Cardinality(timers) <= 1
    /\ \A id \in timers : id = currentMessageId /\ hideTimer = id

\* ---- C39 ------------------------------------------------------------------
\* the quit paths: the 'quit' command of the context menu, and the listener of the
\* tray's app:request-quit event
QuitPaths == {"menu", "tray"}

\* the app:request-quit listener is live: gracefulShutdown() releases it in its
\* listener stage (a stage that threw is taken to have thrown before releasing it)
RequestQuitListening == Count(shutdownLog, "cleanupInteraction") = 0

\* memory.save() and storage.save() of the running gracefulShutdown() have settled
SaveCompleted == shutdownPc \in {"bubbleDispose", "unregisterAll", "done"}

QuitFrame == UNCHANGED lvars /\ StageFrame

\* a quit handler starts: await gracefulShutdown(). The first call runs the stages and
\* the handler waits for it; a later call returns at once, and the handler goes on:
\* the menu handler to exit(0), the tray handler to await emit('app:shutdown-complete')
Quit(path) ==
    /\ ~exited
    /\ path = "tray" => RequestQuitListening
    /\ GracefulShutdownCall
    /\ IF ~gracefulShutdownStarted
       THEN quitWaiting' = path /\ UNCHANGED <<emitting, exited>>
       ELSE IF path = "menu"
            THEN exited' = TRUE /\ UNCHANGED <<quitWaiting, emitting>>
            ELSE emitting' = emitting + 1 /\ UNCHANGED <<quitWaiting, exited>>

\* the gracefulShutdown() call that ran the stages has returned: its handler goes on
QuitResume ==
    /\ ~exited
    /\ shutdownPc = "done"
    /\ quitWaiting # "none"
    /\ quitWaiting' = "none"
    /\ IF quitWaiting = "menu"
       THEN exited' = TRUE /\ UNCHANGED emitting
       ELSE emitting' = emitting + 1 /\ UNCHANGED exited
    /\ QuitFrame

\* emit('app:shutdown-complete') has settled (a failure is ignored): await exit(0)
ShutdownCompleteSettled ==
    /\ ~exited
    /\ emitting > 0
    /\ emitting' = emitting - 1
    /\ exited' = TRUE
    /\ UNCHANGED quitWaiting
    /\ QuitFrame

\* the application quitting: quit requests and the stages of gracefulShutdown(), until
\* exit(0) ends the process
NextQuit ==
    \/ \E path \in QuitPaths : Quit(path)
    \/ ~exited /\ \E ok \in BOOLEAN : PositionSettled(ok)
    \/ ~exited /\ \E ok \in BOOLEAN : ListenersSettled(ok)
    \/ ~exited /\ \E ok \in BOOLEAN : ModulesSettled(ok)
    \/ ~exited /\ \E ok \in BOOLEAN : MemorySaveSettled(ok)
    \/ ~exited /\ \E ok \in BOOLEAN : StorageSaveSettled(ok)
    \/ ~exited /\ \E ok \in BOOLEAN : CloseSettled(ok)
    \/ ~exited /\ BubbleDisposeSettled
    \/ ~exited /\ \E ok \in BOOLEAN : UnregisterSettled(ok)
    \/ QuitResume
    \/ ShutdownCompleteSettled

SpecQuit == InitIdle /\ [][NextQuit]_vars

\* a single quit request exits only once gracefulShutdown() has returned
SingleQuitExitsAfterShutdown == (exited /\ shutdownCalls = 1) => shutdownPc = "done"

\* C39: on every quit path exit(0) is invoked only after memory.save() and
\* storage.save() of gracefulShutdown() have settled, also when a second quit request
\* arrives while the first gracefulShutdown() is running and returns early.
C39_ExitAfterSave == exited => SaveCompleted

====
